---- MODULE Spec2Model ----
(***************************************************************************)
(* Key-exchange negotiation of the makiko SSH client                       *)
(* (src/src/client/negotiate.rs, src/src/client/client.rs).                *)
(*                                                                         *)
(* One action per handler: pump_negotiate (one arm per State),             *)
(* recv_kex_init, recv_new_keys, recv_kex_packet, recv_unimplemented,      *)
(* start_kex, plus the environment: the peer, the application that         *)
(* consumes ClientEvents, the byte counters of the codec and the clock.    *)
(*                                                                         *)
(* The Client handles are modelled with them: the Weak each clone holds,   *)
(* the Arc of the ClientFuture, and the handle operations, each an upgrade *)
(* followed by its body on the locked state.                               *)
(***************************************************************************)
EXTENDS Integers, Sequences, FiniteSets, TLC

VARIABLES
    config,          \* ClientState.config (algorithm lists, rekey thresholds)
    negotiate_st,    \* ClientState.negotiate_st : NegotiateState
    session_id,      \* ClientState.session_id : Option<Vec<u8>>
    last_kex,        \* ClientState.last_kex : LastKex
    codec,           \* ClientState.codec : counters, sequence number, ciphers
    sent_packets,    \* packets given to send_pipe.feed_packet, in order
    authenticated,   \* auth::is_authenticated(st)
    now,             \* Instant::now()
    event_queue,     \* mpsc channel behind st.event_tx (capacity 1)
    event_rx_alive,  \* the ClientReceiver has not been dropped
    accept_ch,       \* oneshot channel of the current AcceptPubkey handle
    app_accept,      \* the application holds the AcceptPubkey handle
    waiters,         \* receivers of the rekey-completion oneshots
    result,          \* outcome of the driver: running, or the fatal error
    ret,             \* value returned by the last handler call
    kex_count,       \* key exchanges started so far
    client_fut,      \* the ClientFuture, owner of the Arc of the state
    handle,          \* per task: its clone of the Client handle is alive
    pc,              \* per task: where its handle operation stands
    op,              \* per task: the handle operation it called last
    op_res,          \* per task: what that operation returned
    auth_method,     \* auth_st: the task whose attempt is active, if any
    open_reqs,       \* channel opens queued in the state by open_channel
    disconnect_req   \* disconnect() was called on the state

\* the variables of the handles and of the state they share
hvars == << client_fut, handle, pc, op, op_res, auth_method, open_reqs,
            disconnect_req >>

vars == << config, negotiate_st, session_id, last_kex, codec, sent_packets,
           authenticated, now, event_queue, event_rx_alive, accept_ch,
           app_accept, waiters, result, ret, kex_count, client_fut, handle,
           pc, op, op_res, auth_method, open_reqs, disconnect_req >>

----------------------------------------------------------------------------
(* Bounds of the model *)

MaxKex == 2          \* key exchanges per behaviour (first + rekeys)
MaxBytes == 2        \* bytes that cross the stream in a behaviour
MaxTime == 2         \* cap of the clock
MaxWaiters == 1      \* rekey-completion oneshots the application creates
MaxClients == 2      \* tasks, each with its own clone of the Client handle
MaxOpens == 1        \* channel opens queued in the state
RekeyAfterBytes == 1     \* config.rekey_after_bytes used by the model
RekeyAfterDuration == 1  \* config.rekey_after_duration used by the model

----------------------------------------------------------------------------
(* Option<T> *)

None == << >>
Some(x) == << x >>
IsSome(o) == o # << >>
IsNone(o) == o = << >>
Unwrap(o) == o[1]

Max(a, b) == IF a >= b THEN a ELSE b

----------------------------------------------------------------------------
(* Algorithm registry *)

\* CipherAlgoVariant::is_aead
AeadCiphers == { "chacha20-poly1305" }
IsAead(cipher) == cipher \in AeadCiphers

\* mac::INVALID, the sentinel MAC paired with an AEAD cipher
MacInvalid == "invalid"

\* ClientConfig::default()
DefaultConfig ==
    [ kex_algos |-> << "curve25519-sha256", "curve25519-sha256@libssh.org" >>,
      server_pubkey_algos |-> << "ssh-ed25519" >>,
      cipher_algos |-> << "aes128-ctr", "aes192-ctr", "aes256-ctr" >>,
      mac_algos |-> << "hmac-sha2-256" >>,
      rekey_after_bytes |-> RekeyAfterBytes,
      rekey_after_duration |-> RekeyAfterDuration ]

\* ClientConfig::default_compatible_insecure()
CompatibleConfig ==
    [ DefaultConfig EXCEPT
        !.kex_algos = Append(@, "diffie-hellman-group14-sha1"),
        !.server_pubkey_algos = Append(@, "ssh-rsa"),
        !.cipher_algos = Append(@, "aes256-cbc"),
        !.mac_algos = Append(@, "hmac-sha1") ]

----------------------------------------------------------------------------
(* negotiate_algos *)

SeqContains(s, x) == \E i \in 1..Len(s) : s[i] = x

\* A result of negotiate_algo: Ok(algo) or Err(AlgoNegotiate{..})
Ok(a) == [ ok |-> TRUE, algo |-> a, algo_name |-> "",
           our_algos |-> << >>, their_algos |-> << >> ]
\* a plausible slip: the two lists are swapped in the error
ErrAlgoNegotiateSwapped(name, our, their) ==
    [ ok |-> FALSE, algo |-> "", algo_name |-> name,
      our_algos |-> their, their_algos |-> our ]

ErrAlgoNegotiate(name, our, their) ==
    [ ok |-> FALSE, algo |-> "", algo_name |-> name,
      our_algos |-> our, their_algos |-> their ]

\* the nested loops of negotiate_algo: our list outside, their list inside
RECURSIVE NegotiateFrom(_, _, _, _)
NegotiateFrom(our_algos, their_algos, name, i) ==
    IF i > Len(our_algos)
    THEN ErrAlgoNegotiate(name, our_algos, their_algos)
    ELSE IF SeqContains(their_algos, our_algos[i])
         THEN Ok(our_algos[i])
         ELSE NegotiateFrom(our_algos, their_algos, name, i + 1)

\* a plausible slip: the server's preference decides
RECURSIVE NegotiateFromTheirs(_, _, _, _)
NegotiateFromTheirs(our_algos, their_algos, name, i) ==
    IF i > Len(their_algos)
    THEN ErrAlgoNegotiate(name, our_algos, their_algos)
    ELSE IF SeqContains(our_algos, their_algos[i])
         THEN Ok(their_algos[i])
         ELSE NegotiateFromTheirs(our_algos, their_algos, name, i + 1)

NegotiateAlgoServerFirst(our_algos, their_algos, name) ==
    NegotiateFromTheirs(our_algos, their_algos, name, 1)

NegotiateAlgo(our_algos, their_algos, name) ==
    NegotiateFrom(our_algos, their_algos, name, 1)

\* a plausible slip: the MAC is negotiated even when the cipher is AEAD
NegotiateMacAlgoAlways(cipher_algo, our_algos, their_algos, name) ==
    NegotiateAlgo(our_algos, their_algos, name)

NegotiateMacAlgo(cipher_algo, our_algos, their_algos, name) ==
    IF IsAead(cipher_algo)
    THEN Ok(MacInvalid)
    ELSE NegotiateAlgo(our_algos, their_algos, name)

\* Result<Algos>: the `?` chain of negotiate_algos, first error wins
NegotiateAlgos(our, their) ==
    LET kex == NegotiateAlgo(our.kex_algos, their.kex_algos, "key exchange")
        server_pubkey == NegotiateAlgo(our.server_pubkey_algos,
                            their.server_pubkey_algos, "server public key")
        cipher_cts == NegotiateAlgo(our.cipher_algos_cts,
                            their.cipher_algos_cts, "cipher client-to-server")
        cipher_stc == NegotiateAlgo(our.cipher_algos_stc,
                            their.cipher_algos_stc, "cipher server-to-client")
        mac_cts == NegotiateMacAlgo(cipher_cts.algo, our.mac_algos_cts,
                            their.mac_algos_cts, "mac client-to-server")
        mac_stc == NegotiateMacAlgo(cipher_stc.algo, our.mac_algos_stc,
                            their.mac_algos_stc, "mac server-to-client")
    IN  IF ~kex.ok THEN [ ok |-> FALSE, err |-> kex, algos |-> None ]
        ELSE IF ~server_pubkey.ok
             THEN [ ok |-> FALSE, err |-> server_pubkey, algos |-> None ]
        ELSE IF ~cipher_cts.ok
             THEN [ ok |-> FALSE, err |-> cipher_cts, algos |-> None ]
        ELSE IF ~cipher_stc.ok
             THEN [ ok |-> FALSE, err |-> cipher_stc, algos |-> None ]
        ELSE IF ~mac_cts.ok
             THEN [ ok |-> FALSE, err |-> mac_cts, algos |-> None ]
        ELSE IF ~mac_stc.ok
             THEN [ ok |-> FALSE, err |-> mac_stc, algos |-> None ]
        ELSE [ ok |-> TRUE, err |-> Ok(""),
               algos |-> Some([ kex |-> kex.algo,
                                server_pubkey |-> server_pubkey.algo,
                                cipher_cts |-> cipher_cts.algo,
                                cipher_stc |-> cipher_stc.algo,
                                mac_cts |-> mac_cts.algo,
                                mac_stc |-> mac_stc.algo ]) ]

----------------------------------------------------------------------------
(* State *)

States == { "Idle", "KexInit", "Kex", "AcceptPubkey", "NewKeys", "Done" }

\* NegotiateState::default()
DefaultNegotiateState ==
    [ state |-> "Idle",
      our_kex_init |-> None,
      their_kex_init |-> None,
      algos |-> None,
      kex |-> None,
      kex_output |-> None,
      signature_verified |-> None,
      pubkey_event |-> None,
      accepted_rx |-> None,
      pubkey_accepted |-> None,
      new_keys_sent |-> FALSE,
      new_keys_recvd |-> FALSE,
      done_txs |-> << >> ]

\* a plausible slip: the first key exchange is not started at construction
InitNegotiateNoKex == DefaultNegotiateState

\* init_negotiate()
InitNegotiate == [ DefaultNegotiateState EXCEPT !.state = "KexInit" ]

\* init_last_kex()
InitLastKex(instant) ==
    [ done |-> FALSE, recvd_bytes |-> 0, sent_bytes |-> 0, instant |-> instant ]

\* is_ready()
IsReady(ns) == ns.state = "Idle"

\* the driver future is still running (no fatal error was returned)
Running == [ kind |-> "Running", reason |-> "", algo_name |-> "",
             our_algos |-> << >>, their_algos |-> << >> ]
Fail(kind) == [ Running EXCEPT !.kind = kind ]
\* Error::Protocol(reason)
FailProtocol(reason) == [ Running EXCEPT !.kind = "Protocol", !.reason = reason ]
FailAlgoNegotiate(e) ==
    [ kind |-> "AlgoNegotiate", reason |-> "", algo_name |-> e.algo_name,
      our_algos |-> e.our_algos, their_algos |-> e.their_algos ]
IsRunning == result.kind = "Running"

\* send_pipe.feed_packet(payload) -> seq : the packet gets the current
\* outbound sequence number and the current outbound cipher.  The number is
\* a u32; a behaviour feeds at most 4 * MaxKex packets, far from the wrap.
FedCodec(c) == [ c EXCEPT !.send_seq = @ + 1 ]
FedLog(log, c, msg) ==
    Append(log, [ msg |-> msg, seq |-> c.send_seq, enc |-> c.encrypt ])

\* Bytes are numbers in 0..255.  PacketEncode::put_biguint writes an mpint:
\* a u32 length and the magnitude (the model's secrets fit in one byte)
PutBiguint(k) == << 0, 0, 0, 1, k >>
\* PacketEncode::put_u8
PutU8(b) == << b >>

\* digest length of the exchange's hash function, in model bytes
HashLen == 2
\* kex.compute_hash(data): a deterministic digest of HashLen bytes, each
\* byte a polynomial checksum of all of data
RECURSIVE HashFold(_, _)
HashFold(data, acc) ==
    IF data = << >> THEN acc
    ELSE HashFold(Tail(data), (acc * 31 + Head(data) + 7) % 251)
ComputeHash(data) == [ i \in 1..HashLen |-> HashFold(data, i) ]
\* the bytes of the exchange hash that the model numbers h
HashBytes(h) == ComputeHash(<< h >>)

\* key_len, iv_len of a CipherAlgo and key_len of a MacAlgo, in model
\* bytes: shorter than, equal to and longer than one digest
CipherKeyLen(cipher) ==
    CASE cipher = "aes128-ctr" -> 1
      [] cipher = "aes192-ctr" -> 2
      [] OTHER -> 3
CipherIvLen(cipher) == IF IsAead(cipher) THEN 0 ELSE 2
MacKeyLen(mac) == IF mac = "hmac-sha1" THEN 3 ELSE 5

\* the while loop of derive_key: extend the key one digest at a time
RECURSIVE ExtendKey(_, _, _)
ExtendKey(to_hash_prefix, key, key_len) ==
    IF Len(key) < key_len
    THEN ExtendKey(to_hash_prefix,
                   key \o ComputeHash(to_hash_prefix \o key), key_len)
    ELSE key

\* derive_key with the session id replaced by the current exchange hash
DeriveKeyCurrentHash(ns, sid, key_type, key_len) ==
    LET kex_output == Unwrap(ns.kex_output)
        to_hash_prefix == PutBiguint(kex_output.shared_secret)
                            \o HashBytes(kex_output.exchange_hash)
        key == ComputeHash(to_hash_prefix \o PutU8(key_type)
                            \o HashBytes(kex_output.exchange_hash))
    IN  SubSeq(ExtendKey(to_hash_prefix, key, key_len), 1, key_len)

\* derive_key(st, key_type, key_len)
DeriveKey(ns, sid, key_type, key_len) ==
    LET kex_output == Unwrap(ns.kex_output)
        session_id_ == Unwrap(sid)
        to_hash_prefix == PutBiguint(kex_output.shared_secret)
                            \o HashBytes(kex_output.exchange_hash)
        key == ComputeHash(to_hash_prefix \o PutU8(key_type)
                            \o HashBytes(session_id_))
    IN  SubSeq(ExtendKey(to_hash_prefix, key, key_len), 1, key_len)

\* the unwraps of derive_key succeed
CanDeriveKey(ns, sid) ==
    IsSome(ns.kex) /\ IsSome(ns.kex_output) /\ IsSome(sid)

\* PacketEncrypt built by send_new_keys: keys b'C' = 67 (cipher),
\* b'A' = 65 (iv), b'E' = 69 (mac)
NewPacketEncrypt(ns, sid) ==
    LET algos == Unwrap(ns.algos)
    IN  [ cipher |-> algos.cipher_cts,
          key |-> DeriveKey(ns, sid, 67, CipherKeyLen(algos.cipher_cts)),
          iv |-> DeriveKey(ns, sid, 65, CipherIvLen(algos.cipher_cts)),
          mac |-> IF IsAead(algos.cipher_cts) THEN None
                  ELSE Some([ algo |-> algos.mac_cts,
                              key |-> DeriveKey(ns, sid, 69,
                                                MacKeyLen(algos.mac_cts)) ]) ]

\* PacketDecrypt built by recv_new_keys: keys b'D' = 68 (cipher),
\* b'B' = 66 (iv), b'F' = 70 (mac)
NewPacketDecrypt(ns, sid) ==
    LET algos == Unwrap(ns.algos)
    IN  [ cipher |-> algos.cipher_stc,
          key |-> DeriveKey(ns, sid, 68, CipherKeyLen(algos.cipher_stc)),
          iv |-> DeriveKey(ns, sid, 66, CipherIvLen(algos.cipher_stc)),
          mac |-> IF IsAead(algos.cipher_stc) THEN None
                  ELSE Some([ algo |-> algos.mac_stc,
                              key |-> DeriveKey(ns, sid, 70,
                                                MacKeyLen(algos.mac_stc)) ]) ]

\* a plausible slip: the sequence number after the packet is recorded
OurKexInitNextSeq(cfg, packet_seq) ==
    [ payload_kex_names |-> Append(cfg.kex_algos, "ext-info-c"),
      kex_algos |-> cfg.kex_algos,
      server_pubkey_algos |-> cfg.server_pubkey_algos,
      cipher_algos_cts |-> cfg.cipher_algos,
      cipher_algos_stc |-> cfg.cipher_algos,
      mac_algos_cts |-> cfg.mac_algos,
      mac_algos_stc |-> cfg.mac_algos,
      packet_seq |-> packet_seq + 1 ]

\* OurKexInit built by send_kex_init from the config
OurKexInit(cfg, packet_seq) ==
    [ payload_kex_names |-> Append(cfg.kex_algos, "ext-info-c"),
      kex_algos |-> cfg.kex_algos,
      server_pubkey_algos |-> cfg.server_pubkey_algos,
      cipher_algos_cts |-> cfg.cipher_algos,
      cipher_algos_stc |-> cfg.cipher_algos,
      mac_algos_cts |-> cfg.mac_algos,
      mac_algos_stc |-> cfg.mac_algos,
      packet_seq |-> packet_seq ]

\* mpsc::channel(1) in Client::open
EventCapacity == 1

----------------------------------------------------------------------------
(* Inputs of the peer *)

TheirKexInit(kex, pubkey, cts, stc, mcts, mstc) ==
    [ kex_algos |-> kex, server_pubkey_algos |-> pubkey,
      cipher_algos_cts |-> cts, cipher_algos_stc |-> stc,
      mac_algos_cts |-> mcts, mac_algos_stc |-> mstc ]

\* KEXINITs the peer sends in the protocol runs: a server compatible with the
\* defaults (with and without ext-info-s) and the CBC-only server
PeerKexInits ==
    { TheirKexInit(<< "curve25519-sha256", "ext-info-s" >>, << "ssh-ed25519" >>,
                   << "aes128-ctr" >>, << "aes128-ctr" >>,
                   << "hmac-sha2-256" >>, << "hmac-sha2-256" >>),
      TheirKexInit(<< "curve25519-sha256" >>, << "ssh-ed25519" >>,
                   << "aes256-ctr", "aes128-ctr" >>, << "aes256-ctr" >>,
                   << "hmac-sha2-256" >>, << "hmac-sha2-256" >>),
      TheirKexInit(<< "curve25519-sha256" >>, << "ssh-ed25519" >>,
                   << "aes256-cbc" >>, << "aes256-cbc" >>,
                   << "hmac-sha2-256" >>, << "hmac-sha2-256" >>) }

\* what the kex method yields from the peer's reply: a KexOutput, or the
\* failure of poll(), of Pubkey::decode or of (pubkey_algo.verify)
KexFaults == { "none", "kex", "pubkey", "signature" }
\* the exchange hash covers both cookies, so every exchange has its own:
\* the hash of the n-th exchange is n
KexReplies(n) ==
    [ exchange_hash : { n }, fault : KexFaults ]

----------------------------------------------------------------------------
(* Initial state: Client::open, new_client *)

\* Client::open returns one Client, holding a Weak, and the ClientFuture,
\* holding the Arc; no handle operation has been called
InitHandles ==
    /\ client_fut = "alive"
    /\ handle = [ t \in 1..MaxClients |-> t = 1 ]
    /\ pc = [ t \in 1..MaxClients |-> "idle" ]
    /\ op = [ t \in 1..MaxClients |-> "" ]
    /\ op_res = [ t \in 1..MaxClients |-> "" ]
    /\ auth_method = None
    /\ open_reqs = 0
    /\ disconnect_req = FALSE

Init ==
    /\ InitHandles
    /\ config = DefaultConfig
    /\ negotiate_st = InitNegotiate
    /\ session_id = None
    /\ last_kex = InitLastKex(0)
    /\ codec = [ recvd_bytes |-> 0, sent_bytes |-> 0, send_seq |-> 0,
                 encrypt |-> None, decrypt |-> None ]
    /\ sent_packets = << >>
    /\ authenticated = FALSE
    /\ now = 0
    /\ event_queue = << >>
    /\ event_rx_alive = TRUE
    /\ accept_ch = "none"
    /\ app_accept = FALSE
    /\ waiters = [ i \in 1..MaxWaiters |-> "unused" ]
    /\ result = Running
    /\ ret = ""
    /\ kex_count = 1

----------------------------------------------------------------------------
(* start_kex *)

\* a plausible slip: the sender is kept only when the call starts an exchange
StartKexStateNoAttach(ns, done_tx) ==
    IF ns.state = "Idle"
    THEN [ ns EXCEPT !.state = "KexInit",
                     !.done_txs = IF done_tx # 0 THEN Append(@, done_tx) ELSE @ ]
    ELSE ns

\* start_kex(st, done_tx) on the negotiation state; done_tx = 0 stands for None
StartKexState(ns, done_tx) ==
    LET started == IF ns.state = "Idle"
                   THEN [ ns EXCEPT !.state = "KexInit" ] ELSE ns
    IN  IF done_tx # 0
        THEN [ started EXCEPT !.done_txs = Append(@, done_tx) ]
        ELSE started

\* a Client handle asks for a rekey and keeps the receiver of done_tx
StartKex(done_tx) ==
    /\ IsRunning
    /\ waiters[done_tx] = "unused"
    /\ negotiate_st.state = "Idle" => kex_count < MaxKex
    /\ negotiate_st' = StartKexState(negotiate_st, done_tx)
    /\ waiters' = [ waiters EXCEPT ![done_tx] = "waiting" ]
    /\ kex_count' = IF negotiate_st.state = "Idle"
                    THEN kex_count + 1 ELSE kex_count
    /\ ret' = "()"
    /\ UNCHANGED << config, session_id, last_kex, codec, sent_packets,
                    authenticated, now, event_queue, event_rx_alive,
                    accept_ch, app_accept, result >>
    /\ UNCHANGED hvars

----------------------------------------------------------------------------
(* pump_negotiate, one arm per State *)

Min(a, b) == IF a <= b THEN a ELSE b

\* a plausible slip: the smaller of the two byte counts is compared
RekeyDueMin ==
    LET recvd_after_kex == codec.recvd_bytes - last_kex.recvd_bytes
        sent_after_kex == codec.sent_bytes - last_kex.sent_bytes
        duration_after_kex == now - last_kex.instant
    IN  \/ Min(recvd_after_kex, sent_after_kex) > config.rekey_after_bytes
        \/ duration_after_kex > config.rekey_after_duration

\* the rekey condition of the Idle arm
RekeyDue ==
    LET recvd_after_kex == codec.recvd_bytes - last_kex.recvd_bytes
        sent_after_kex == codec.sent_bytes - last_kex.sent_bytes
        duration_after_kex == now - last_kex.instant
    IN  \/ Max(recvd_after_kex, sent_after_kex) > config.rekey_after_bytes
        \/ duration_after_kex > config.rekey_after_duration

\* a plausible slip: the rekey is started whether or not we are authenticated
PumpIdleStartsNoAuth == RekeyDue

PumpIdleStarts == authenticated /\ RekeyDue

PumpIdle ==
    /\ IsRunning
    /\ negotiate_st.state = "Idle"
    /\ PumpIdleStarts => kex_count < MaxKex
    /\ IF PumpIdleStarts
       THEN /\ negotiate_st' = StartKexState(negotiate_st, 0)
            /\ kex_count' = kex_count + 1
            /\ ret' = "Progress"
       ELSE /\ ret' = "Pending"
            /\ UNCHANGED << negotiate_st, kex_count >>
    /\ UNCHANGED << config, session_id, last_kex, codec, sent_packets,
                    authenticated, now, event_queue, event_rx_alive,
                    accept_ch, app_accept, waiters, result >>
    /\ UNCHANGED hvars

\* the kex object made by (kex_algo.make_kex)
MakeKex(kex_algo) == [ algo |-> kex_algo, init_sent |-> FALSE, reply |-> None ]

PumpKexInit ==
    /\ IsRunning
    /\ negotiate_st.state = "KexInit"
    /\ LET send == IsNone(negotiate_st.our_kex_init)
           our == IF send THEN OurKexInit(config, codec.send_seq)
                  ELSE Unwrap(negotiate_st.our_kex_init)
           ns1 == [ negotiate_st EXCEPT !.our_kex_init = Some(our) ]
       IN  /\ codec' = IF send THEN FedCodec(codec) ELSE codec
           /\ sent_packets' = IF send
                              THEN FedLog(sent_packets, codec, "KEXINIT")
                              ELSE sent_packets
           /\ IF IsSome(ns1.their_kex_init)
              THEN LET res == NegotiateAlgos(our, Unwrap(ns1.their_kex_init))
                   IN  IF res.ok
                       THEN /\ negotiate_st' =
                                 [ ns1 EXCEPT
                                     !.algos = res.algos,
                                     !.kex = Some(MakeKex(Unwrap(res.algos).kex)),
                                     !.state = "Kex" ]
                            /\ ret' = "Progress"
                            /\ result' = result
                       ELSE /\ negotiate_st' = ns1
                            /\ ret' = "Err"
                            /\ result' = FailAlgoNegotiate(res.err)
              ELSE /\ negotiate_st' = ns1
                   /\ ret' = "Pending"
                   /\ result' = result
    /\ UNCHANGED << config, session_id, last_kex, authenticated, now,
                    event_queue, event_rx_alive, accept_ch, app_accept,
                    waiters, kex_count >>
    /\ UNCHANGED hvars

\* a plausible slip: every kex output replaces session_id
NextSessionIdAlways(sid, exchange_hash) == Some(exchange_hash)

\* session_id is set from the exchange hash only while it is None
NextSessionId(sid, exchange_hash) ==
    IF IsNone(sid) THEN Some(exchange_hash) ELSE sid

\* a plausible slip: the result of the verification is not looked at
VerifySignatureLenient(reply) == TRUE

\* (pubkey_algo.verify)(pubkey, exchange_hash, signature) is Ok
VerifySignature(reply) == reply.fault # "signature"

\* a plausible slip: the host key is shown to the application only once
NewPubkeyEventFirstOnly(lk) ==
    IF lk.done THEN None ELSE Some("ServerPubkey")

\* ClientEvent::ServerPubkey(pubkey, accept_tx), built after every kex
NewPubkeyEvent(lk) == Some("ServerPubkey")

PumpKex ==
    /\ IsRunning
    /\ negotiate_st.state = "Kex"
    /\ LET kex == Unwrap(negotiate_st.kex)
       IN  IF ~kex.init_sent
           THEN \* kex.send_packet() yields the method's first packet
                /\ negotiate_st' = [ negotiate_st EXCEPT
                                       !.kex = Some([ kex EXCEPT !.init_sent = TRUE ]) ]
                /\ codec' = FedCodec(codec)
                /\ sent_packets' = FedLog(sent_packets, codec, "KEX_INIT")
                /\ ret' = "Progress"
                /\ UNCHANGED << session_id, result, accept_ch >>
           ELSE IF IsNone(kex.reply)
           THEN \* kex.poll() is Pending
                /\ ret' = "Pending"
                /\ UNCHANGED << negotiate_st, codec, sent_packets, session_id,
                                result, accept_ch >>
           ELSE IF Unwrap(kex.reply).fault = "kex"
           THEN \* kex.poll() is Ready(Err)
                /\ ret' = "Err"
                /\ result' = Fail("Crypto")
                /\ UNCHANGED << negotiate_st, codec, sent_packets, session_id,
                                accept_ch >>
           ELSE LET reply == Unwrap(kex.reply)
                    kex_output == [ shared_secret |-> reply.exchange_hash,
                                    exchange_hash |-> reply.exchange_hash ]
                IN  /\ session_id' = NextSessionId(session_id, kex_output.exchange_hash)
                    /\ UNCHANGED << codec, sent_packets >>
                    /\ IF reply.fault = "pubkey"
                       THEN /\ ret' = "Err"
                            /\ result' = Fail("Decode")
                            /\ UNCHANGED << negotiate_st, accept_ch >>
                       ELSE IF ~VerifySignature(reply)
                       THEN /\ ret' = "Err"
                            /\ result' = Fail("Signature")
                            /\ UNCHANGED << negotiate_st, accept_ch >>
                       ELSE /\ negotiate_st' =
                                 [ negotiate_st EXCEPT
                                     !.signature_verified = Some("SignatureVerified"),
                                     !.kex_output = Some(kex_output),
                                     !.pubkey_event = NewPubkeyEvent(last_kex),
                                     !.accepted_rx = Some("accepted_rx"),
                                     !.state = "AcceptPubkey" ]
                            /\ accept_ch' = "open"
                            /\ ret' = "Progress"
                            /\ result' = result
    /\ UNCHANGED << config, last_kex, authenticated, now, event_queue,
                    event_rx_alive, app_accept, waiters, kex_count >>
    /\ UNCHANGED hvars

\* the error AcceptPubkey::reject sends through accepted_tx
RejectError == "PubkeyAccept"

\* a plausible slip: a closed or rejecting accept channel counts as accepted
PollAcceptedLenient(ch) ==
    IF ch = "open" THEN "Pending" ELSE "Ok"

\* a plausible slip: the reply is not awaited
PollAcceptedNoWait(ch) ==
    IF ch \in { "open", "accepted" } THEN "Ok" ELSE "PubkeyAccept"

\* polling accepted_rx: Pending while the sender is alive and silent; a dropped
\* sender is RecvError, mapped to PubkeyAccept; a sent Err is returned by `??`
PollAccepted(ch) ==
    CASE ch = "open" -> "Pending"
      [] ch = "accepted" -> "Ok"
      [] ch = "rejected" -> RejectError
      [] OTHER -> "PubkeyAccept"

\* a plausible slip: the event is sent without waiting for a slot, and a
\* full queue loses it
PollReserveNoWait(has_event, rx_alive, queue_len) ==
    IF ~has_event THEN "none"
    ELSE IF ~rx_alive \/ queue_len >= EventCapacity THEN "Err"
    ELSE "Ok"

\* event_tx.poll_reserve, tried only while the event is still to be sent: Err
\* when the receiver is gone, Pending when the queue is full, else a slot
PollReserve(has_event, rx_alive, queue_len) ==
    IF ~has_event THEN "none"
    ELSE IF ~rx_alive THEN "Err"
    ELSE IF queue_len >= EventCapacity THEN "Pending"
    ELSE "Ok"

PumpAcceptPubkey ==
    /\ IsRunning
    /\ negotiate_st.state = "AcceptPubkey"
    /\ LET has_event == IsSome(negotiate_st.pubkey_event)
           reserve == PollReserve(has_event, event_rx_alive, Len(event_queue))
       IN  IF reserve = "Pending"
           THEN /\ ret' = "Pending"
                /\ UNCHANGED << negotiate_st, event_queue, accept_ch, result >>
           ELSE LET ns1 == [ negotiate_st EXCEPT !.pubkey_event = None ]
                    \* an event that is not sent is dropped with its accept_tx
                    ch1 == IF reserve = "Err" THEN "closed" ELSE accept_ch
                    polled == PollAccepted(ch1)
                IN  /\ event_queue' = IF reserve = "Ok"
                                      THEN Append(event_queue, "ServerPubkey")
                                      ELSE event_queue
                    /\ accept_ch' = ch1
                    /\ IF polled = "Pending"
                       THEN /\ negotiate_st' = ns1
                            /\ ret' = "Pending"
                            /\ result' = result
                       ELSE IF polled = "Ok"
                       THEN /\ negotiate_st' =
                                 [ ns1 EXCEPT
                                     !.pubkey_accepted = Some("PubkeyAccepted"),
                                     !.state = "NewKeys" ]
                            /\ ret' = "Progress"
                            /\ result' = result
                       ELSE /\ negotiate_st' = ns1
                            /\ ret' = "Err"
                            /\ result' = Fail(polled)
    /\ UNCHANGED << config, session_id, last_kex, codec, sent_packets,
                    authenticated, now, event_rx_alive, app_accept, waiters,
                    kex_count >>
    /\ UNCHANGED hvars

\* a plausible slip: the first-kex condition is left out
SendsExtInfoOnRekey(ns, lk) ==
    SeqContains(Unwrap(ns.their_kex_init).kex_algos, "ext-info-s")

\* maybe_send_ext_info: EXT_INFO goes out on the first kex when the peer
\* advertised ext-info-s
SendsExtInfo(ns, lk) ==
    /\ ~lk.done
    /\ SeqContains(Unwrap(ns.their_kex_init).kex_algos, "ext-info-s")

\* a plausible slip: the cipher is replaced before NEWKEYS is fed
SendNewKeysCipherFirst(c, log, ns, sid) ==
    LET c1 == [ c EXCEPT !.encrypt = Some(NewPacketEncrypt(ns, sid)) ]
    IN  [ codec |-> FedCodec(c1), log |-> FedLog(log, c1, "NEWKEYS") ]

\* send_new_keys: NEWKEYS is fed to the send pipe, then set_encrypt
SendNewKeys(c, log, ns, sid) ==
    [ codec |-> [ FedCodec(c) EXCEPT
                    !.encrypt = Some(NewPacketEncrypt(ns, sid)) ],
      log |-> FedLog(log, c, "NEWKEYS") ]

PumpNewKeys ==
    /\ IsRunning
    /\ negotiate_st.state = "NewKeys"
    /\ IF \/ IsNone(negotiate_st.signature_verified)
          \/ IsNone(negotiate_st.pubkey_accepted)
          \/ (~negotiate_st.new_keys_sent /\
                (IsNone(negotiate_st.algos) \/ ~CanDeriveKey(negotiate_st, session_id)))
       THEN \* a failed assert! or unwrap
            /\ ret' = "Panic"
            /\ result' = Fail("Panic")
            /\ UNCHANGED << negotiate_st, codec, sent_packets >>
       ELSE IF ~negotiate_st.new_keys_sent
       THEN \* send_new_keys, then maybe_send_ext_info
            LET sent == SendNewKeys(codec, sent_packets, negotiate_st,
                                    session_id)
                c2 == sent.codec
                log1 == sent.log
                ext == SendsExtInfo(negotiate_st, last_kex)
            IN  /\ codec' = IF ext THEN FedCodec(c2) ELSE c2
                /\ sent_packets' = IF ext THEN FedLog(log1, c2, "EXT_INFO")
                                   ELSE log1
                /\ negotiate_st' = [ negotiate_st EXCEPT !.new_keys_sent = TRUE ]
                /\ ret' = "Progress"
                /\ result' = result
       ELSE IF negotiate_st.new_keys_sent /\ negotiate_st.new_keys_recvd
       THEN /\ negotiate_st' = [ negotiate_st EXCEPT !.state = "Done" ]
            /\ ret' = "Progress"
            /\ UNCHANGED << codec, sent_packets, result >>
       ELSE /\ ret' = "Pending"
            /\ UNCHANGED << negotiate_st, codec, sent_packets, result >>
    /\ UNCHANGED << config, session_id, last_kex, authenticated, now,
                    event_queue, event_rx_alive, accept_ch, app_accept,
                    waiters, kex_count >>
    /\ UNCHANGED hvars

\* every sender of `txs` sends `value`; a receiver that was dropped gets
\* nothing, and the send returns Err
Resolve(ws, txs, value) ==
    [ i \in DOMAIN ws |->
        IF SeqContains(txs, i) /\ ws[i] = "waiting" THEN value ELSE ws[i] ]

\* a plausible slip: the Result of the send is unwrapped
SendDoneUnwrapped(ws, txs) ==
    IF \E i \in DOMAIN ws : SeqContains(txs, i) /\ ws[i] = "dropped"
    THEN "Panic" ELSE "Ok"

\* the Result of done_tx.send is bound to `_`: a failed send is no error
SendDone(ws, txs) == "Ok"

PumpDone ==
    /\ IsRunning
    /\ negotiate_st.state = "Done"
    /\ IF SendDone(waiters, negotiate_st.done_txs) = "Ok"
       THEN /\ waiters' = Resolve(waiters, negotiate_st.done_txs, "ok")
            /\ negotiate_st' = DefaultNegotiateState
            /\ last_kex' = [ done |-> TRUE,
                             recvd_bytes |-> codec.recvd_bytes,
                             sent_bytes |-> codec.sent_bytes,
                             instant |-> now ]
            \* the old accepted_rx is dropped with the old NegotiateState
            /\ accept_ch' = "none"
            /\ ret' = "Progress"
            /\ result' = result
       ELSE /\ ret' = "Err"
            /\ result' = Fail(SendDone(waiters, negotiate_st.done_txs))
            /\ UNCHANGED << waiters, negotiate_st, last_kex, accept_ch >>
    /\ UNCHANGED << config, session_id, codec, sent_packets, authenticated,
                    now, event_queue, event_rx_alive, app_accept, kex_count >>
    /\ UNCHANGED hvars

PumpNegotiate ==
    \/ PumpIdle
    \/ PumpKexInit
    \/ PumpKex
    \/ PumpAcceptPubkey
    \/ PumpNewKeys
    \/ PumpDone

----------------------------------------------------------------------------
(* Handlers of received packets *)

\* a plausible slip: the flag is decoded and not looked at
FirstKexPacketFollowsIgnored(first_kex_packet_follows) == FALSE

\* the guess flag of the peer's KEXINIT is refused before anything is stored
FirstKexPacketFollowsFails(first_kex_packet_follows) == first_kex_packet_follows

\* a plausible slip: the peer's KEXINIT is taken in every state
AcceptsKexInitAlways(ns) == TRUE

\* the states in which the peer's KEXINIT is expected
AcceptsKexInit(ns) ==
    /\ ns.state \in { "Idle", "KexInit" }
    /\ IsNone(ns.their_kex_init)

\* recv_kex_init
RecvKexInit(kex_init, first_kex_packet_follows) ==
    /\ IsRunning
    /\ (~first_kex_packet_follows /\ negotiate_st.state = "Idle") =>
          kex_count < MaxKex
    /\ IF FirstKexPacketFollowsFails(first_kex_packet_follows)
       THEN /\ ret' = "Err"
            /\ result' = FailProtocol(
                  "received SSH_MSG_KEXINIT with first_kex_packet_follows set")
            /\ UNCHANGED << negotiate_st, kex_count >>
       ELSE IF AcceptsKexInit(negotiate_st)
       THEN /\ negotiate_st' = [ negotiate_st EXCEPT
                                   !.their_kex_init = Some(kex_init),
                                   !.state = "KexInit" ]
            /\ kex_count' = IF negotiate_st.state = "Idle"
                            THEN kex_count + 1 ELSE kex_count
            /\ ret' = "Ok"
            /\ result' = result
       ELSE /\ ret' = "Err"
            /\ result' = FailProtocol("received SSH_MSG_KEXINIT during negotiation")
            /\ UNCHANGED << negotiate_st, kex_count >>
    /\ UNCHANGED << config, session_id, last_kex, codec, sent_packets,
                    authenticated, now, event_queue, event_rx_alive,
                    accept_ch, app_accept, waiters >>
    /\ UNCHANGED hvars

\* recv_kex_packet: the packet goes to the kex object, if there is one
RecvKexPacket(reply) ==
    /\ IsRunning
    /\ IF IsSome(negotiate_st.kex) /\ IsNone(Unwrap(negotiate_st.kex).reply)
       THEN /\ negotiate_st' =
                 [ negotiate_st EXCEPT
                     !.kex = Some([ Unwrap(negotiate_st.kex) EXCEPT
                                      !.reply = Some(reply) ]) ]
            /\ ret' = "Ok"
            /\ result' = result
       ELSE /\ ret' = "Err"
            /\ result' = FailProtocol("received unexpected kex message")
            /\ UNCHANGED negotiate_st
    /\ UNCHANGED << config, session_id, last_kex, codec, sent_packets,
                    authenticated, now, event_queue, event_rx_alive,
                    accept_ch, app_accept, waiters, kex_count >>
    /\ UNCHANGED hvars

\* recv_new_keys
RecvNewKeys ==
    /\ IsRunning
    /\ IF negotiate_st.state \notin { "Kex", "AcceptPubkey", "NewKeys" }
       THEN /\ ret' = "Err"
            /\ result' = FailProtocol("received unexpected SSH_MSG_NEWKEYS")
            /\ UNCHANGED << negotiate_st, codec >>
       ELSE IF negotiate_st.new_keys_recvd
       THEN /\ ret' = "Err"
            /\ result' = FailProtocol("received SSH_MSG_NEWKEYS twice")
            /\ UNCHANGED << negotiate_st, codec >>
       ELSE IF IsNone(negotiate_st.algos) \/ ~CanDeriveKey(negotiate_st, session_id)
       THEN \* unwrap() of an absent value
            /\ ret' = "Panic"
            /\ result' = Fail("Panic")
            /\ UNCHANGED << negotiate_st, codec >>
       ELSE /\ codec' = [ codec EXCEPT !.decrypt =
                             Some(NewPacketDecrypt(negotiate_st, session_id)) ]
            /\ negotiate_st' = [ negotiate_st EXCEPT !.new_keys_recvd = TRUE ]
            /\ ret' = "Ok"
            /\ result' = result
    /\ UNCHANGED << config, session_id, last_kex, sent_packets, authenticated,
                    now, event_queue, event_rx_alive, accept_ch, app_accept,
                    waiters, kex_count >>
    /\ UNCHANGED hvars

\* a plausible slip: the rejection is accepted on the first kex too
UnimplementedRejectsNoFirstCheck(ns, lk, packet_seq) ==
    /\ IsSome(ns.our_kex_init)
    /\ Unwrap(ns.our_kex_init).packet_seq = packet_seq
    /\ IsNone(ns.their_kex_init)

\* a plausible slip: any UNIMPLEMENTED during a rekey rejects it
UnimplementedRejectsAnySeq(ns, lk, packet_seq) ==
    /\ IsSome(ns.our_kex_init)
    /\ IsNone(ns.their_kex_init)
    /\ lk.done

\* recv_unimplemented takes the packet as the rejection of our KEXINIT
UnimplementedRejects(ns, lk, packet_seq) ==
    /\ IsSome(ns.our_kex_init)
    /\ Unwrap(ns.our_kex_init).packet_seq = packet_seq
    /\ IsNone(ns.their_kex_init)
    /\ lk.done

\* recv_unimplemented fails the connection
UnimplementedFails(ns, lk, packet_seq) ==
    /\ IsSome(ns.our_kex_init)
    /\ Unwrap(ns.our_kex_init).packet_seq = packet_seq
    /\ (IsSome(ns.their_kex_init) \/ ~lk.done)

\* a plausible slip: the waiters are dropped without an answer
RejectWaitersForget(ws, txs) == ws

RejectWaiters(ws, txs) == Resolve(ws, txs, "rejected")

\* recv_unimplemented
RecvUnimplemented(packet_seq) ==
    /\ IsRunning
    /\ IF UnimplementedRejects(negotiate_st, last_kex, packet_seq)
       THEN /\ waiters' = RejectWaiters(waiters, negotiate_st.done_txs)
            /\ negotiate_st' = DefaultNegotiateState
            /\ ret' = "Ok(true)"
            /\ result' = result
       ELSE IF UnimplementedFails(negotiate_st, last_kex, packet_seq)
       THEN /\ ret' = "Err"
            /\ result' = FailProtocol(
                  IF IsSome(negotiate_st.their_kex_init)
                  THEN "peer rejected our SSH_MSG_KEX_INIT, but they sent their SSH_MSG_KEX_INIT"
                  ELSE "peer rejected our first SSH_MSG_KEX_INIT")
            /\ UNCHANGED << negotiate_st, waiters >>
       ELSE /\ ret' = "Ok(false)"
            /\ UNCHANGED << negotiate_st, waiters, result >>
    /\ UNCHANGED << config, session_id, last_kex, codec, sent_packets,
                    authenticated, now, event_queue, event_rx_alive,
                    accept_ch, app_accept, kex_count >>
    /\ UNCHANGED hvars

----------------------------------------------------------------------------
(* Environment: codec counters, clock, authentication, application *)

\* recv_pipe / send_pipe count the bytes that went over the stream.  The
\* model moves the counters and the clock between key exchanges, where the
\* rekey condition reads them: what they gain during an exchange enters
\* last_kex at Done like what they gained before it.
TransferRecvd ==
    /\ IsRunning
    /\ IsReady(negotiate_st)
    /\ codec.recvd_bytes + codec.sent_bytes < MaxBytes
    /\ codec' = [ codec EXCEPT !.recvd_bytes = @ + 1 ]
    /\ UNCHANGED << config, negotiate_st, session_id, last_kex, sent_packets,
                    authenticated, now, event_queue, event_rx_alive,
                    accept_ch, app_accept, waiters, result, ret, kex_count >>
    /\ UNCHANGED hvars

TransferSent ==
    /\ IsRunning
    /\ IsReady(negotiate_st)
    /\ codec.recvd_bytes + codec.sent_bytes < MaxBytes
    /\ codec' = [ codec EXCEPT !.sent_bytes = @ + 1 ]
    /\ UNCHANGED << config, negotiate_st, session_id, last_kex, sent_packets,
                    authenticated, now, event_queue, event_rx_alive,
                    accept_ch, app_accept, waiters, result, ret, kex_count >>
    /\ UNCHANGED hvars

Tick ==
    /\ IsRunning
    /\ IsReady(negotiate_st)
    /\ now < MaxTime
    /\ now' = now + 1
    /\ UNCHANGED << config, negotiate_st, session_id, last_kex, codec,
                    sent_packets, authenticated, event_queue, event_rx_alive,
                    accept_ch, app_accept, waiters, result, ret, kex_count >>
    /\ UNCHANGED hvars

\* USERAUTH_SUCCESS: authentication runs once the first keys are in use
AuthSuccess ==
    /\ IsRunning
    /\ last_kex.done
    /\ ~authenticated
    /\ authenticated' = TRUE
    /\ UNCHANGED << config, negotiate_st, session_id, last_kex, codec,
                    sent_packets, now, event_queue, event_rx_alive,
                    accept_ch, app_accept, waiters, result, ret, kex_count >>
    /\ UNCHANGED hvars

\* another component of the driver puts an event (banner, debug) in the queue
OtherEvent ==
    /\ IsRunning
    /\ event_rx_alive
    /\ Len(event_queue) < EventCapacity
    /\ event_queue' = Append(event_queue, "Other")
    /\ UNCHANGED << config, negotiate_st, session_id, last_kex, codec,
                    sent_packets, authenticated, now, event_rx_alive,
                    accept_ch, app_accept, waiters, result, ret, kex_count >>
    /\ UNCHANGED hvars

\* ClientReceiver::recv
AppRecvEvent ==
    /\ IsRunning
    /\ event_rx_alive
    /\ event_queue # << >>
    /\ event_queue' = Tail(event_queue)
    /\ app_accept' = IF Head(event_queue) = "ServerPubkey" THEN TRUE
                     ELSE app_accept
    /\ UNCHANGED << config, negotiate_st, session_id, last_kex, codec,
                    sent_packets, authenticated, now, event_rx_alive,
                    accept_ch, waiters, result, ret, kex_count >>
    /\ UNCHANGED hvars

\* the application answers through the AcceptPubkey handle, or drops it
AppReply(reply) ==
    /\ IsRunning
    /\ app_accept
    /\ app_accept' = FALSE
    /\ accept_ch' = reply
    /\ UNCHANGED << config, negotiate_st, session_id, last_kex, codec,
                    sent_packets, authenticated, now, event_queue,
                    event_rx_alive, waiters, result, ret, kex_count >>
    /\ UNCHANGED hvars

AppAccept == AppReply("accepted")
AppReject == AppReply("rejected")
AppDropAccept == AppReply("closed")

\* the caller of a rekey drops the receiver of its done_tx
AppDropWaiter(done_tx) ==
    /\ IsRunning
    /\ waiters[done_tx] = "waiting"
    /\ waiters' = [ waiters EXCEPT ![done_tx] = "dropped" ]
    /\ UNCHANGED << config, negotiate_st, session_id, last_kex, codec,
                    sent_packets, authenticated, now, event_queue,
                    event_rx_alive, accept_ch, app_accept, result, ret,
                    kex_count >>
    /\ UNCHANGED hvars

\* the ClientReceiver is dropped, and the queued events with it
AppDropReceiver ==
    /\ IsRunning
    /\ event_rx_alive
    /\ event_rx_alive' = FALSE
    /\ event_queue' = << >>
    /\ accept_ch' = IF SeqContains(event_queue, "ServerPubkey") THEN "closed"
                    ELSE accept_ch
    /\ UNCHANGED << config, negotiate_st, session_id, last_kex, codec,
                    sent_packets, authenticated, now, app_accept, waiters,
                    result, ret, kex_count >>
    /\ UNCHANGED hvars

----------------------------------------------------------------------------
(* Specification of the protocol runs *)

Next ==
    \/ PumpNegotiate
    \/ \E k \in PeerKexInits, f \in BOOLEAN : RecvKexInit(k, f)
    \/ \E r \in KexReplies(kex_count) : RecvKexPacket(r)
    \/ RecvNewKeys
    \/ \E s \in 0..codec.send_seq : RecvUnimplemented(s)
    \/ \E w \in 1..MaxWaiters : StartKex(w)
    \/ \E w \in 1..MaxWaiters : AppDropWaiter(w)
    \/ TransferRecvd
    \/ TransferSent
    \/ Tick
    \/ AuthSuccess
    \/ OtherEvent
    \/ AppRecvEvent
    \/ AppAccept
    \/ AppReject
    \/ AppDropAccept
    \/ AppDropReceiver

Spec == Init /\ [][Next]_vars

----------------------------------------------------------------------------
(* Client handles: a Client holds a Weak of the shared state, the           *)
(* ClientFuture holds the Arc. A handle operation upgrades the Weak, locks  *)
(* the state, runs, and drops its temporary Arc when it returns.            *)

Clients == 1..MaxClients

HandleOps ==
    { "auth_none", "auth_password", "is_authenticated", "open_channel",
      "disconnect" }

AuthOps == { "auth_none", "auth_password" }

\* Arc::strong_count: the ClientFuture and the operations holding an upgrade
StrongCount(fut, pcs) ==
    (IF fut = "alive" THEN 1 ELSE 0)
      + Cardinality({ t \in Clients : pcs[t] = "upgraded" })

\* Arc::weak_count: the Client clones alive
WeakCount == Cardinality({ t \in Clients : handle[t] })

\* a plausible slip: the handle owns the state, upgrade cannot fail
UpgradeOwning(strong_count) == "Ok"

\* Client::upgrade
Upgrade(strong_count) ==
    IF strong_count > 0 THEN "Ok" ELSE "ClientClosed"

\* a plausible slip: the new attempt replaces the active one
StartMethodReplaces(is_auth, active) ==
    IF is_auth THEN "Success" ELSE "Started"

\* auth::start_method, by the authenticated flag and the active attempt
StartMethod(is_auth, active) ==
    IF is_auth THEN "Success"
    ELSE IF IsSome(active) THEN "AuthAborted"
    ELSE "Started"

\* the state is dropped with its last Arc: the result senders it holds are
\* dropped, and result_rx.await of their attempts yields AuthAborted
FreedPc(pcs) ==
    [ t \in Clients |-> IF pcs[t] = "awaiting" THEN "idle" ELSE pcs[t] ]

FreedRes(pcs, rs) ==
    [ t \in Clients |-> IF pcs[t] = "awaiting" THEN "AuthAborted" ELSE rs[t] ]

\* a handle operation is called: it begins with self.upgrade()?
HandleCall(t, o) ==
    /\ handle[t]
    /\ pc[t] = "idle"
    /\ o = "open_channel" =>
         open_reqs + Cardinality({ u \in Clients :
             pc[u] = "upgraded" /\ op[u] = "open_channel" }) < MaxOpens
    /\ op' = [ op EXCEPT ![t] = o ]
    /\ IF Upgrade(StrongCount(client_fut, pc)) = "Ok"
       THEN /\ pc' = [ pc EXCEPT ![t] = "upgraded" ]
            /\ op_res' = [ op_res EXCEPT ![t] = "" ]
       ELSE /\ pc' = pc
            /\ op_res' = [ op_res EXCEPT ![t] = "ClientClosed" ]
    /\ UNCHANGED << config, negotiate_st, session_id, last_kex, codec,
                    sent_packets, authenticated, now, event_queue,
                    event_rx_alive, accept_ch, app_accept, waiters, result,
                    ret, kex_count, client_fut, handle, auth_method,
                    open_reqs, disconnect_req >>

\* the operation runs on the locked state and returns, dropping its Arc
HandleRun(t) ==
    /\ pc[t] = "upgraded"
    /\ LET started == StartMethod(authenticated, auth_method)
           is_auth_op == op[t] \in AuthOps
           \* pc, result and active attempt once the body has run
           pc1 == [ u \in Clients |->
                      IF u = t
                      THEN IF is_auth_op /\ started = "Started"
                           THEN "awaiting" ELSE "idle"
                      ELSE IF /\ is_auth_op /\ started = "Started"
                              /\ auth_method = Some(u)
                      THEN "idle" ELSE pc[u] ]
           res1 == [ u \in Clients |->
                      IF u = t
                      THEN CASE is_auth_op /\ started = "Started" -> ""
                             [] is_auth_op -> started
                             [] op[t] = "is_authenticated" ->
                                  IF authenticated THEN "Ok(true)"
                                  ELSE "Ok(false)"
                             [] op[t] = "open_channel" -> "Opening"
                             [] OTHER -> "Ok"
                      ELSE IF /\ is_auth_op /\ started = "Started"
                              /\ auth_method = Some(u)
                      THEN "AuthAborted" ELSE op_res[u] ]
           auth1 == IF is_auth_op /\ started = "Started"
                    THEN Some(t) ELSE auth_method
           freed == StrongCount(client_fut, pc1) = 0
       IN  /\ pc' = IF freed THEN FreedPc(pc1) ELSE pc1
           /\ op_res' = IF freed THEN FreedRes(pc1, res1) ELSE res1
           /\ auth_method' = IF freed THEN None ELSE auth1
    /\ open_reqs' = IF op[t] = "open_channel" THEN open_reqs + 1
                    ELSE open_reqs
    /\ disconnect_req' = (disconnect_req \/ op[t] = "disconnect")
    /\ UNCHANGED << config, negotiate_st, session_id, last_kex, codec,
                    sent_packets, authenticated, now, event_queue,
                    event_rx_alive, accept_ch, app_accept, waiters, result,
                    ret, kex_count, client_fut, handle, op >>

\* derive(Clone) on Client: another task gets a clone of a live handle
CloneHandle(t) ==
    /\ ~handle[t]
    /\ \E u \in Clients : handle[u]
    /\ handle' = [ handle EXCEPT ![t] = TRUE ]
    /\ UNCHANGED << config, negotiate_st, session_id, last_kex, codec,
                    sent_packets, authenticated, now, event_queue,
                    event_rx_alive, accept_ch, app_accept, waiters, result,
                    ret, kex_count, client_fut, pc, op, op_res, auth_method,
                    open_reqs, disconnect_req >>

\* a task drops its clone; an operation in progress borrows the handle
DropHandle(t) ==
    /\ handle[t]
    /\ pc[t] = "idle"
    /\ handle' = [ handle EXCEPT ![t] = FALSE ]
    /\ UNCHANGED << config, negotiate_st, session_id, last_kex, codec,
                    sent_packets, authenticated, now, event_queue,
                    event_rx_alive, accept_ch, app_accept, waiters, result,
                    ret, kex_count, client_fut, pc, op, op_res, auth_method,
                    open_reqs, disconnect_req >>

\* the ClientFuture is dropped, and its Arc with it
DropFuture ==
    /\ client_fut = "alive"
    /\ client_fut' = "dropped"
    /\ LET freed == StrongCount("dropped", pc) = 0
       IN  /\ pc' = IF freed THEN FreedPc(pc) ELSE pc
           /\ op_res' = IF freed THEN FreedRes(pc, op_res) ELSE op_res
           /\ auth_method' = IF freed THEN None ELSE auth_method
    /\ UNCHANGED << config, negotiate_st, session_id, last_kex, codec,
                    sent_packets, authenticated, now, event_queue,
                    event_rx_alive, accept_ch, app_accept, waiters, result,
                    ret, kex_count, handle, op, open_reqs, disconnect_req >>

\* the driver receives the reply to the active attempt's USERAUTH_REQUEST
RecvUserauthReply(success) ==
    /\ IsRunning
    /\ client_fut = "alive"
    /\ last_kex.done
    /\ IsSome(auth_method)
    /\ authenticated' = (authenticated \/ success)
    /\ pc' = [ pc EXCEPT ![Unwrap(auth_method)] = "idle" ]
    /\ op_res' = [ op_res EXCEPT ![Unwrap(auth_method)] =
                     IF success THEN "Success" ELSE "Failure" ]
    /\ auth_method' = None
    /\ UNCHANGED << config, negotiate_st, session_id, last_kex, codec,
                    sent_packets, now, event_queue, event_rx_alive,
                    accept_ch, app_accept, waiters, result, ret, kex_count,
                    client_fut, handle, op, open_reqs, disconnect_req >>

\* a plausible slip: the driver leaves without a word to the peer
SendsDisconnectNever == FALSE

\* the driver says DISCONNECT to a peer that authenticated it
SendsDisconnect == authenticated

\* no Client handle is left
ShutdownDue == WeakCount = 0

\* ClientFuture::poll once the last Client handle is gone: the driver sends
\* DISCONNECT if authenticated, and completes
PollShutdown ==
    /\ IsRunning
    /\ client_fut = "alive"
    /\ ShutdownDue
    /\ IF SendsDisconnect
       THEN /\ sent_packets' = FedLog(sent_packets, codec, "DISCONNECT")
            /\ codec' = FedCodec(codec)
       ELSE UNCHANGED << sent_packets, codec >>
    /\ result' = [ Running EXCEPT !.kind = "Ok" ]
    /\ UNCHANGED << config, negotiate_st, session_id, last_kex,
                    authenticated, now, event_queue, event_rx_alive,
                    accept_ch, app_accept, waiters, ret, kex_count,
                    client_fut, handle, pc, op, op_res, auth_method,
                    open_reqs, disconnect_req >>

\* the first key exchange, then the handles: the application calls its
\* handles once the connection is ready, and no rekey runs meanwhile
NextHandles ==
    \/ ~last_kex.done /\ PumpKexInit
    \/ ~last_kex.done /\ PumpKex
    \/ ~last_kex.done /\ PumpAcceptPubkey
    \/ ~last_kex.done /\ PumpNewKeys
    \/ ~last_kex.done /\ PumpDone
    \/ ~last_kex.done /\ \E k \in PeerKexInits : RecvKexInit(k, FALSE)
    \/ ~last_kex.done /\ \E r \in KexReplies(kex_count) : RecvKexPacket(r)
    \/ ~last_kex.done /\ RecvNewKeys
    \/ ~last_kex.done /\ AppRecvEvent
    \/ ~last_kex.done /\ AppAccept
    \/ last_kex.done /\ \E t \in Clients, o \in HandleOps : HandleCall(t, o)
    \/ last_kex.done /\ \E t \in Clients : HandleRun(t)
    \/ last_kex.done /\ \E t \in Clients : CloneHandle(t)
    \/ last_kex.done /\ \E t \in Clients : DropHandle(t)
    \/ last_kex.done /\ DropFuture
    \/ last_kex.done /\ \E b \in BOOLEAN : RecvUserauthReply(b)
    \/ last_kex.done /\ PollShutdown

SpecHandles == Init /\ [][NextHandles]_vars

----------------------------------------------------------------------------
(* Specification of the algorithm negotiation: the KexInit arm of           *)
(* pump_negotiate run on the peer's KEXINIT, over client configurations and *)
(* KEXINITs that differ in order, in direction and in AEAD ciphers          *)

AlgoConfigs ==
    { DefaultConfig,
      CompatibleConfig,
      [ DefaultConfig EXCEPT
          !.cipher_algos = << "chacha20-poly1305", "aes128-ctr" >> ],
      [ CompatibleConfig EXCEPT
          !.cipher_algos = << "aes256-ctr", "chacha20-poly1305" >> ] }

AlgoKexLists ==
    { << "curve25519-sha256" >>,
      << "diffie-hellman-group14-sha1", "curve25519-sha256@libssh.org",
         "ext-info-s" >>,
      << "ext-info-c", "diffie-hellman-group1-sha1" >> }
AlgoPubkeyLists ==
    { << "ssh-ed25519" >>, << "ssh-rsa", "ssh-ed25519" >>, << "ssh-dss" >> }
AlgoCipherLists ==
    { << "aes256-cbc" >>, << "aes256-ctr", "aes128-ctr" >>,
      << "chacha20-poly1305" >>, << "aes128-ctr", "chacha20-poly1305" >> }
AlgoMacLists ==
    { << "hmac-sha2-256" >>, << "hmac-sha1", "hmac-sha2-256" >>,
      << "hmac-md5" >> }

AlgoTheirs ==
    { TheirKexInit(k, p, cts, stc, mcts, mstc) :
        k \in AlgoKexLists, p \in AlgoPubkeyLists,
        cts \in AlgoCipherLists, stc \in AlgoCipherLists,
        mcts \in AlgoMacLists, mstc \in AlgoMacLists }

\* the peer's KEXINIT has been received before the first pump_negotiate
InitAlgos ==
    /\ InitHandles
    /\ config \in AlgoConfigs
    /\ \E t \in AlgoTheirs :
          negotiate_st = [ InitNegotiate EXCEPT !.their_kex_init = Some(t) ]
    /\ session_id = None
    /\ last_kex = InitLastKex(0)
    /\ codec = [ recvd_bytes |-> 0, sent_bytes |-> 0, send_seq |-> 0,
                 encrypt |-> None, decrypt |-> None ]
    /\ sent_packets = << >>
    /\ authenticated = FALSE
    /\ now = 0
    /\ event_queue = << >>
    /\ event_rx_alive = TRUE
    /\ accept_ch = "none"
    /\ app_accept = FALSE
    /\ waiters = [ i \in 1..MaxWaiters |-> "unused" ]
    /\ result = Running
    /\ ret = ""
    /\ kex_count = 1

NextAlgos == PumpKexInit

SpecAlgos == InitAlgos /\ [][NextAlgos]_vars

----------------------------------------------------------------------------
(* Properties *)

\* packets of `log` with message name `msg`
CountMsg(log, msg) == Cardinality({ i \in 1..Len(log) : log[i].msg = msg })

\* this step feeds a packet `msg` to the send pipe
Fed(msg) ==
    \E i \in (Len(sent_packets) + 1)..Len(sent_packets') :
        sent_packets'[i].msg = msg

\* C1: session_id is set from the exchange hash of the kex output that first
\* arrives, and once it is set no step changes it (rekeys, rejected rekeys
\* and KEXINITs of the peer included).
C1_SessionIdImmutable ==
    [][ /\ IsSome(session_id) => session_id' = session_id
        /\ (IsNone(session_id) /\ IsSome(session_id')) =>
              /\ IsSome(negotiate_st.kex)
              /\ IsSome(Unwrap(negotiate_st.kex).reply)
              /\ session_id' =
                   Some(Unwrap(Unwrap(negotiate_st.kex).reply).exchange_hash)
      ]_vars

\* a rekey has produced another exchange hash and session_id is the first one
C1_Witness ==
    /\ last_kex.done
    /\ IsSome(negotiate_st.kex_output)
    /\ IsSome(session_id)
    /\ Unwrap(negotiate_st.kex_output).exchange_hash # Unwrap(session_id)
    /\ Unwrap(session_id) = 1

\* C2: in every key exchange, NEWKEYS is fed and the outbound cipher is
\* replaced only when the signature of this exchange was verified and the
\* application has accepted the ServerPubkey event; a pump_negotiate call in
\* AcceptPubkey that leaves the accept reply outstanding stays in AcceptPubkey
\* and returns Pending.
C2_NewKeysAfterAccept ==
    [][ /\ (Fed("NEWKEYS") \/ codec'.encrypt # codec.encrypt) =>
              /\ IsSome(negotiate_st.signature_verified)
              /\ Unwrap(Unwrap(negotiate_st.kex).reply).fault = "none"
              /\ IsSome(negotiate_st.pubkey_accepted)
              /\ accept_ch = "accepted"
        /\ (PumpNegotiate /\ negotiate_st.state = "AcceptPubkey"
                          /\ accept_ch' = "open") =>
              /\ negotiate_st'.state = "AcceptPubkey"
              /\ ret' = "Pending"
              /\ sent_packets' = sent_packets
              /\ codec' = codec
      ]_vars

\* the NEWKEYS of a rekey has been sent, after the application accepted again
C2_Witness ==
    /\ last_kex.done
    /\ negotiate_st.new_keys_sent
    /\ accept_ch = "accepted"
    /\ sent_packets[Len(sent_packets)].msg = "NEWKEYS"

\* C3: when the accept handle of the ServerPubkey event is dropped without a
\* reply (the application drops it, or the event cannot be delivered because
\* the event receiver is closed), the pump_negotiate call in AcceptPubkey
\* fails with PubkeyAccept, and the negotiation is never in NewKeys or beyond
\* with a dropped handle: no NEWKEYS is sent.
C3_DroppedAcceptAborts ==
    [][ /\ (/\ PumpNegotiate
            /\ negotiate_st.state = "AcceptPubkey"
            /\ \/ accept_ch = "closed"
               \/ IsSome(negotiate_st.pubkey_event) /\ ~event_rx_alive) =>
              /\ ret' = "Err"
              /\ result'.kind = "PubkeyAccept"
              /\ negotiate_st'.state = "AcceptPubkey"
              /\ sent_packets' = sent_packets
              /\ codec' = codec
        /\ accept_ch' = "closed" =>
              /\ negotiate_st'.state = "AcceptPubkey"
              /\ ~negotiate_st'.new_keys_sent
              /\ IsNone(negotiate_st'.pubkey_accepted)
      ]_vars

\* the application took the event and dropped the handle; the driver failed
C3_Witness ==
    /\ result.kind = "PubkeyAccept"
    /\ accept_ch = "closed"
    /\ event_rx_alive
    /\ negotiate_st.state = "AcceptPubkey"

\* C4: when the signature of the host key was valid and the application
\* replies `reject` through the accept handle, the pump_negotiate call fails
\* with PubkeyAccept and no NEWKEYS is sent.
C4_RejectAborts ==
    [][ /\ (/\ PumpNegotiate
            /\ negotiate_st.state = "AcceptPubkey"
            /\ accept_ch = "rejected") =>
              /\ IsSome(negotiate_st.signature_verified)
              /\ ret' = "Err"
              /\ result'.kind = "PubkeyAccept"
              /\ sent_packets' = sent_packets
              /\ codec' = codec
        /\ accept_ch' = "rejected" =>
              /\ negotiate_st'.state = "AcceptPubkey"
              /\ ~negotiate_st'.new_keys_sent
      ]_vars

\* the application rejected the key of a rekey and the driver failed
C4_Witness ==
    /\ result.kind = "PubkeyAccept"
    /\ accept_ch = "rejected"
    /\ last_kex.done
    /\ CountMsg(sent_packets, "NEWKEYS") = 1

\* `a` is the first name of `our` that appears anywhere in `their`
FirstCommon(our, their, a) ==
    \E i \in 1..Len(our) :
        /\ our[i] = a
        /\ \E k \in 1..Len(their) : their[k] = a
        /\ \A j \in 1..(i - 1) : \A k \in 1..Len(their) : their[k] # our[j]

HasCommon(our, their) ==
    \E i \in 1..Len(our) : \E k \in 1..Len(their) : our[i] = their[k]

\* the first common cipher of a direction is an AEAD cipher
AeadChosen(our, their) ==
    \E a \in AeadCiphers : FirstCommon(our, their, a)

\* the six slots in the order negotiate_algos takes them; a MAC slot is
\* negotiated unless the cipher chosen for its direction is AEAD
Slots(our, their) ==
    << [ name |-> "key exchange", our |-> our.kex_algos,
         their |-> their.kex_algos, negotiated |-> TRUE ],
       [ name |-> "server public key", our |-> our.server_pubkey_algos,
         their |-> their.server_pubkey_algos, negotiated |-> TRUE ],
       [ name |-> "cipher client-to-server", our |-> our.cipher_algos_cts,
         their |-> their.cipher_algos_cts, negotiated |-> TRUE ],
       [ name |-> "cipher server-to-client", our |-> our.cipher_algos_stc,
         their |-> their.cipher_algos_stc, negotiated |-> TRUE ],
       [ name |-> "mac client-to-server", our |-> our.mac_algos_cts,
         their |-> their.mac_algos_cts,
         negotiated |-> ~AeadChosen(our.cipher_algos_cts, their.cipher_algos_cts) ],
       [ name |-> "mac server-to-client", our |-> our.mac_algos_stc,
         their |-> their.mac_algos_stc,
         negotiated |-> ~AeadChosen(our.cipher_algos_stc, their.cipher_algos_stc) ] >>

FailingSlots(slots) ==
    { i \in 1..Len(slots) :
        slots[i].negotiated /\ ~HasCommon(slots[i].our, slots[i].their) }

\* pump_negotiate has run on both KEXINITs
Negotiated ==
    /\ ret # ""
    /\ IsSome(negotiate_st.our_kex_init)
    /\ IsSome(negotiate_st.their_kex_init)

\* C5: for each negotiated slot (kex, server public key, the cipher of each
\* direction, the MAC of each direction whose cipher is not AEAD) the
\* algorithm chosen is the first name of the client's list that appears
\* anywhere in the server's list of that slot; each direction uses its own
\* server list; the client's lists are those of the configuration.
C5_FirstClientPreference ==
    Negotiated =>
      LET our == Unwrap(negotiate_st.our_kex_init)
          their == Unwrap(negotiate_st.their_kex_init)
          slots == Slots(our, their)
      IN  /\ our.kex_algos = config.kex_algos
          /\ our.server_pubkey_algos = config.server_pubkey_algos
          /\ our.cipher_algos_cts = config.cipher_algos
          /\ our.cipher_algos_stc = config.cipher_algos
          /\ our.mac_algos_cts = config.mac_algos
          /\ our.mac_algos_stc = config.mac_algos
          /\ FailingSlots(slots) = {} =>
                /\ negotiate_st.state = "Kex"
                /\ IsSome(negotiate_st.algos)
          /\ IsSome(negotiate_st.algos) =>
                LET al == Unwrap(negotiate_st.algos)
                IN  /\ FirstCommon(our.kex_algos, their.kex_algos, al.kex)
                    /\ FirstCommon(our.server_pubkey_algos,
                                   their.server_pubkey_algos, al.server_pubkey)
                    /\ FirstCommon(our.cipher_algos_cts,
                                   their.cipher_algos_cts, al.cipher_cts)
                    /\ FirstCommon(our.cipher_algos_stc,
                                   their.cipher_algos_stc, al.cipher_stc)
                    /\ ~IsAead(al.cipher_cts) =>
                          FirstCommon(our.mac_algos_cts,
                                      their.mac_algos_cts, al.mac_cts)
                    /\ ~IsAead(al.cipher_stc) =>
                          FirstCommon(our.mac_algos_stc,
                                      their.mac_algos_stc, al.mac_stc)

\* the two directions got different ciphers, and client-to-server got one the
\* server lists after another common one
C5_Witness ==
    /\ negotiate_st.state = "Kex"
    /\ IsSome(negotiate_st.algos)
    /\ Unwrap(negotiate_st.algos).cipher_cts = "aes128-ctr"
    /\ Unwrap(negotiate_st.their_kex_init).cipher_algos_cts =
          << "aes256-ctr", "aes128-ctr" >>
    /\ Unwrap(negotiate_st.algos).cipher_stc = "chacha20-poly1305"
    /\ Unwrap(negotiate_st.algos).mac_cts = "hmac-sha2-256"
    /\ Unwrap(negotiate_st.their_kex_init).mac_algos_cts =
          << "hmac-sha1", "hmac-sha2-256" >>

\* C6: when a negotiated slot has no common algorithm, pump_negotiate fails
\* with AlgoNegotiate naming the first such slot in the order kex, server
\* public key, cipher client-to-server, cipher server-to-client, mac
\* client-to-server, mac server-to-client, with the client's and the
\* server's list of that slot; the state stays KexInit.  A server with only
\* aes256-cbc against the CTR-only default client gives "cipher
\* client-to-server".
C6_AlgoNegotiateError ==
    Negotiated =>
      LET our == Unwrap(negotiate_st.our_kex_init)
          their == Unwrap(negotiate_st.their_kex_init)
          slots == Slots(our, their)
          failing == FailingSlots(slots)
      IN  /\ failing # {} =>
                LET first == CHOOSE i \in failing : \A j \in failing : i <= j
                IN  /\ ret = "Err"
                    /\ result.kind = "AlgoNegotiate"
                    /\ result.algo_name = slots[first].name
                    /\ result.our_algos = slots[first].our
                    /\ result.their_algos = slots[first].their
                    /\ negotiate_st.state = "KexInit"
                    /\ IsNone(negotiate_st.algos)
                    /\ IsNone(negotiate_st.kex)
          /\ result.kind = "AlgoNegotiate" => failing # {}
          /\ (/\ config.cipher_algos = << "aes128-ctr", "aes192-ctr", "aes256-ctr" >>
              /\ their.cipher_algos_cts = << "aes256-cbc" >>
              /\ their.cipher_algos_stc = << "aes256-cbc" >>
              /\ HasCommon(our.kex_algos, their.kex_algos)
              /\ HasCommon(our.server_pubkey_algos, their.server_pubkey_algos)) =>
                /\ result.kind = "AlgoNegotiate"
                /\ result.algo_name = "cipher client-to-server"

\* the CBC-only server against the default client
C6_Witness ==
    /\ config = DefaultConfig
    /\ result.kind = "AlgoNegotiate"
    /\ result.algo_name = "cipher client-to-server"
    /\ result.our_algos = << "aes128-ctr", "aes192-ctr", "aes256-ctr" >>
    /\ result.their_algos = << "aes256-cbc" >>
    /\ negotiate_st.state = "KexInit"

\* C7: a direction whose chosen cipher is AEAD gets the MAC mac::INVALID and
\* its MAC lists are not negotiated, so disjoint MAC lists do not fail it; a
\* direction whose chosen cipher is not AEAD gets the first common MAC, and
\* fails with AlgoNegotiate when there is none.
C7_AeadSkipsMac ==
    (Negotiated /\ result.kind \in { "Running", "AlgoNegotiate" }) =>
      LET our == Unwrap(negotiate_st.our_kex_init)
          their == Unwrap(negotiate_st.their_kex_init)
          cts_aead == AeadChosen(our.cipher_algos_cts, their.cipher_algos_cts)
          stc_aead == AeadChosen(our.cipher_algos_stc, their.cipher_algos_stc)
      IN  /\ IsSome(negotiate_st.algos) =>
                LET al == Unwrap(negotiate_st.algos)
                IN  /\ IsAead(al.cipher_cts) = cts_aead
                    /\ IsAead(al.cipher_stc) = stc_aead
                    /\ IF cts_aead THEN al.mac_cts = MacInvalid
                       ELSE /\ al.mac_cts # MacInvalid
                            /\ FirstCommon(our.mac_algos_cts,
                                           their.mac_algos_cts, al.mac_cts)
                    /\ IF stc_aead THEN al.mac_stc = MacInvalid
                       ELSE /\ al.mac_stc # MacInvalid
                            /\ FirstCommon(our.mac_algos_stc,
                                           their.mac_algos_stc, al.mac_stc)
          /\ (result.kind = "AlgoNegotiate"
                /\ result.algo_name = "mac client-to-server") => ~cts_aead
          /\ (result.kind = "AlgoNegotiate"
                /\ result.algo_name = "mac server-to-client") => ~stc_aead
          /\ (/\ HasCommon(our.kex_algos, their.kex_algos)
              /\ HasCommon(our.server_pubkey_algos, their.server_pubkey_algos)
              /\ cts_aead /\ stc_aead) =>
                /\ result.kind = "Running"
                /\ negotiate_st.state = "Kex"
          /\ (/\ HasCommon(our.kex_algos, their.kex_algos)
              /\ HasCommon(our.server_pubkey_algos, their.server_pubkey_algos)
              /\ HasCommon(our.cipher_algos_cts, their.cipher_algos_cts)
              /\ HasCommon(our.cipher_algos_stc, their.cipher_algos_stc)
              /\ \/ ~cts_aead /\ ~HasCommon(our.mac_algos_cts, their.mac_algos_cts)
                 \/ ~stc_aead /\ ~HasCommon(our.mac_algos_stc, their.mac_algos_stc)) =>
                /\ result.kind = "AlgoNegotiate"
                /\ result.algo_name \in { "mac client-to-server",
                                          "mac server-to-client" }

\* client-to-server is AEAD with disjoint MAC lists, server-to-client is not
\* AEAD and has a negotiated MAC
C7_Witness ==
    /\ negotiate_st.state = "Kex"
    /\ IsSome(negotiate_st.algos)
    /\ Unwrap(negotiate_st.algos).cipher_cts = "chacha20-poly1305"
    /\ Unwrap(negotiate_st.algos).mac_cts = MacInvalid
    /\ ~HasCommon(Unwrap(negotiate_st.our_kex_init).mac_algos_cts,
                  Unwrap(negotiate_st.their_kex_init).mac_algos_cts)
    /\ ~IsAead(Unwrap(negotiate_st.algos).cipher_stc)
    /\ Unwrap(negotiate_st.algos).mac_stc = "hmac-sha2-256"

\* bytes received and sent since the last completed key exchange
RecvdAfterKex == codec.recvd_bytes - last_kex.recvd_bytes
SentAfterKex == codec.sent_bytes - last_kex.sent_bytes

\* one direction has moved more than rekey_after_bytes since the last kex
BytesExceeded ==
    \/ RecvdAfterKex >= config.rekey_after_bytes + 1
    \/ SentAfterKex >= config.rekey_after_bytes + 1

\* C8 as stated: with rekey_after_bytes = N, once N+1 bytes have moved since
\* the last completed key exchange, the next pump_negotiate call in Idle
\* moves the state to KexInit.
C8_AsStated ==
    [][ (PumpNegotiate /\ negotiate_st.state = "Idle" /\ BytesExceeded) =>
            negotiate_st'.state = "KexInit"
      ]_vars

\* C8 amended: when the client is authenticated and N+1 bytes have moved in
\* one direction since the last completed key exchange, the next
\* pump_negotiate call in Idle moves the state to KexInit and returns
\* Progress; no other handler leaves KexInit before our KEXINIT is sent, and
\* the pump_negotiate call that follows feeds our KEXINIT and records the
\* sequence number feed_packet gave it.
C8_RekeyWhenAuthenticated ==
    [][ /\ (PumpNegotiate /\ negotiate_st.state = "Idle"
              /\ authenticated /\ BytesExceeded) =>
              /\ negotiate_st'.state = "KexInit"
              /\ IsNone(negotiate_st'.our_kex_init)
              /\ ret' = "Progress"
              /\ result' = result
        /\ (negotiate_st.state = "KexInit" /\ IsNone(negotiate_st.our_kex_init)
              /\ IsSome(negotiate_st'.our_kex_init)) =>
              /\ Fed("KEXINIT")
              /\ Unwrap(negotiate_st'.our_kex_init).packet_seq = codec.send_seq
        /\ (PumpNegotiate /\ negotiate_st.state = "KexInit"
              /\ IsNone(negotiate_st.our_kex_init)) =>
              IsSome(negotiate_st'.our_kex_init)
        /\ (negotiate_st.state = "KexInit" /\ IsNone(negotiate_st.our_kex_init)
              /\ result'.kind = "Running") =>
              negotiate_st'.state \in { "KexInit", "Kex" }
      ]_vars

\* a rekey that the byte count started, and only it: the clock has not passed
\* the duration, the peer has sent no KEXINIT, nobody asked for the rekey
C8_Witness ==
    /\ negotiate_st.state = "KexInit"
    /\ IsSome(negotiate_st.our_kex_init)
    /\ IsNone(negotiate_st.their_kex_init)
    /\ negotiate_st.done_txs = << >>
    /\ last_kex.done
    /\ authenticated
    /\ Max(RecvdAfterKex, SentAfterKex) = config.rekey_after_bytes + 1
    /\ now - last_kex.instant <= config.rekey_after_duration
    /\ CountMsg(sent_packets, "KEXINIT") = 2

\* C9: an UNIMPLEMENTED for the sequence number of our KEXINIT, with no
\* KEXINIT of the peer received and a key exchange completed before, answers
\* every waiting rekey-completion receiver with Err(RekeyRejected), resets
\* the negotiation state to Idle, returns Ok(true), and leaves session_id,
\* last_kex and the installed ciphers as they were; the driver keeps running.
C9_RekeyRejected ==
    [][ \A s \in 0..codec.send_seq :
          (/\ RecvUnimplemented(s)
           /\ IsSome(negotiate_st.our_kex_init)
           /\ Unwrap(negotiate_st.our_kex_init).packet_seq = s
           /\ IsNone(negotiate_st.their_kex_init)
           /\ last_kex.done) =>
              /\ \A w \in DOMAIN waiters :
                    waiters'[w] = IF /\ SeqContains(negotiate_st.done_txs, w)
                                     /\ waiters[w] = "waiting"
                                  THEN "rejected" ELSE waiters[w]
              /\ negotiate_st' = DefaultNegotiateState
              /\ negotiate_st'.state = "Idle"
              /\ ret' = "Ok(true)"
              /\ session_id' = session_id
              /\ last_kex' = last_kex
              /\ codec' = codec
              /\ result'.kind = "Running"
      ]_vars

\* a rekey the application asked for was rejected by the peer
C9_Witness ==
    /\ ret = "Ok(true)"
    /\ negotiate_st.state = "Idle"
    /\ \E w \in DOMAIN waiters : waiters[w] = "rejected"
    /\ IsSome(codec.encrypt)
    /\ IsSome(codec.decrypt)
    /\ last_kex.done
    /\ result.kind = "Running"

\* C10: an UNIMPLEMENTED for the sequence number of our KEXINIT during the
\* first key exchange fails the connection with a protocol error and does
\* not return to Idle; an UNIMPLEMENTED for another sequence number, or with
\* no KEXINIT of ours outstanding, changes nothing and returns Ok(false).
C10_FirstKexRejected ==
    [][ \A s \in 0..codec.send_seq :
          RecvUnimplemented(s) =>
            /\ (/\ IsSome(negotiate_st.our_kex_init)
                /\ Unwrap(negotiate_st.our_kex_init).packet_seq = s
                /\ ~last_kex.done) =>
                  /\ ret' = "Err"
                  /\ result'.kind = "Protocol"
                  /\ negotiate_st' = negotiate_st
                  /\ negotiate_st'.state # "Idle"
            /\ (\/ IsNone(negotiate_st.our_kex_init)
                \/ Unwrap(negotiate_st.our_kex_init).packet_seq # s) =>
                  /\ ret' = "Ok(false)"
                  /\ negotiate_st' = negotiate_st
                  /\ waiters' = waiters
                  /\ result' = result
      ]_vars

\* the peer rejected the KEXINIT of the first key exchange
C10_Witness ==
    /\ result.kind = "Protocol"
    /\ result.reason = "peer rejected our first SSH_MSG_KEX_INIT"
    /\ ~last_kex.done
    /\ negotiate_st.state = "KexInit"
    /\ IsSome(negotiate_st.our_kex_init)

\* C11: a received KEXINIT with first_kex_packet_follows set is a protocol
\* error in every negotiation state; the peer's KEXINIT is not stored and the
\* negotiation state is left as it was.
C11_FirstKexPacketFollows ==
    [][ \A k \in PeerKexInits :
          RecvKexInit(k, TRUE) =>
            /\ ret' = "Err"
            /\ result'.kind = "Protocol"
            /\ result'.reason =
                 "received SSH_MSG_KEXINIT with first_kex_packet_follows set"
            /\ negotiate_st' = negotiate_st
            /\ session_id' = session_id
            /\ last_kex' = last_kex
      ]_vars

\* the flagged KEXINIT arrived in Idle after a completed key exchange, where
\* an unflagged one would have been stored
C11_Witness ==
    /\ result.kind = "Protocol"
    /\ result.reason = "received SSH_MSG_KEXINIT with first_kex_packet_follows set"
    /\ ret = "Err"
    /\ negotiate_st.state = "Idle"
    /\ IsNone(negotiate_st.their_kex_init)
    /\ last_kex.done

\* C12: from connection start the negotiation is not ready (the state is not
\* Idle) until the first key exchange has had NEWKEYS both sent and received:
\* in every reachable state, Idle implies last_kex.done, and last_kex.done
\* implies that both directions run under negotiated keys; last_kex.done
\* becomes true only in a step that leaves Done with both NEWKEYS flags set.
C12_NotReadyBeforeNewKeys ==
    /\ [](/\ negotiate_st.state = "Idle" => last_kex.done
          /\ IsReady(negotiate_st) => last_kex.done
          /\ last_kex.done =>
               /\ IsSome(codec.encrypt)
               /\ IsSome(codec.decrypt)
               /\ CountMsg(sent_packets, "NEWKEYS") >= 1)
    /\ [][ /\ (~last_kex.done /\ last_kex'.done) =>
                /\ negotiate_st.state = "Done"
                /\ negotiate_st.new_keys_sent
                /\ negotiate_st.new_keys_recvd
           /\ (~IsReady(negotiate_st) /\ IsReady(negotiate_st')) =>
                last_kex'.done
           /\ last_kex.done => last_kex'.done
      ]_vars

\* the negotiation became ready for the first time
C12_Witness ==
    /\ IsReady(negotiate_st)
    /\ last_kex.done
    /\ kex_count = 1
    /\ CountMsg(sent_packets, "NEWKEYS") = 1
    /\ IsSome(codec.encrypt)
    /\ IsSome(codec.decrypt)
    /\ ~authenticated

\* the state shared through the handles, and the driver's side of it
SharedState ==
    << config, negotiate_st, session_id, last_kex, codec, sent_packets,
       authenticated, auth_method, open_reqs, disconnect_req, result >>

\* some handle operation holds an upgraded Arc
OpInProgress == \E u \in Clients : pc[u] = "upgraded"

C15_NewcomerAborted ==
    /\ [][ \A t \in Clients :
             (/\ HandleRun(t)
              /\ op[t] \in AuthOps
              /\ ~authenticated
              /\ IsSome(auth_method)) =>
                /\ op_res'[t] = "AuthAborted"
                /\ pc'[t] = "idle"
                /\ client_fut = "alive" =>
                     /\ auth_method' = auth_method
                     /\ pc'[Unwrap(auth_method)] = "awaiting"
                     /\ op_res'[Unwrap(auth_method)] = ""
         ]_vars
    /\ [][ \A u \in Clients :
             (pc[u] = "awaiting" /\ pc'[u] # "awaiting"
                /\ client_fut' = "alive") =>
                /\ auth_method = Some(u)
                /\ op_res'[u] \in { "Success", "Failure" }
         ]_vars

\* the second task's attempt was refused while the first task's attempt, of
\* another method, is still waiting for its reply
C15_Witness ==
    /\ client_fut = "alive"
    /\ auth_method = Some(1)
    /\ pc[1] = "awaiting"
    /\ op[1] = "auth_password"
    /\ op[2] = "auth_none"
    /\ pc[2] = "idle"
    /\ op_res[2] = "AuthAborted"

\* ServerPubkey events waiting in the application's queue
QueuedPubkeys(q) == Cardinality({ i \in DOMAIN q : q[i] = "ServerPubkey" })

\* C16: the event queue never holds more than one event; while it is full,
\* pump_negotiate in AcceptPubkey returns Pending and changes neither the
\* negotiation state nor the queue, so the ServerPubkey event is retained;
\* once a slot is free the event is put in the queue and leaves the
\* negotiation state in the same call. While the receiver is alive the
\* event leaves the negotiation state only by being queued, and a
\* ServerPubkey enters the queue only this way: once per event created.
C16_Backpressure ==
    /\ [](Len(event_queue) <= 1)
    /\ [][ (/\ PumpNegotiate
            /\ negotiate_st.state = "AcceptPubkey"
            /\ IsSome(negotiate_st.pubkey_event)
            /\ event_rx_alive) =>
              IF Len(event_queue) >= 1
              THEN /\ ret' = "Pending"
                   /\ negotiate_st' = negotiate_st
                   /\ event_queue' = event_queue
                   /\ accept_ch' = accept_ch
                   /\ result' = result
              ELSE /\ event_queue' = Append(event_queue, "ServerPubkey")
                   /\ IsNone(negotiate_st'.pubkey_event)
         ]_vars
    /\ [][ (/\ IsSome(negotiate_st.pubkey_event)
            /\ IsNone(negotiate_st'.pubkey_event)
            /\ event_rx_alive) =>
              QueuedPubkeys(event_queue') = QueuedPubkeys(event_queue) + 1
         ]_vars
    /\ [][ QueuedPubkeys(event_queue') > QueuedPubkeys(event_queue) =>
              /\ negotiate_st.state = "AcceptPubkey"
              /\ IsSome(negotiate_st.pubkey_event)
              /\ IsNone(negotiate_st'.pubkey_event)
              /\ QueuedPubkeys(event_queue') = QueuedPubkeys(event_queue) + 1
         ]_vars
    /\ [][ (IsNone(negotiate_st.pubkey_event)
              /\ IsSome(negotiate_st'.pubkey_event)) =>
              /\ negotiate_st.state = "Kex"
              /\ negotiate_st'.state = "AcceptPubkey"
         ]_vars

\* the driver is stalled in AcceptPubkey behind an unconsumed event
C16_Witness ==
    /\ negotiate_st.state = "AcceptPubkey"
    /\ IsSome(negotiate_st.pubkey_event)
    /\ event_queue = << "Other" >>
    /\ event_rx_alive
    /\ ret = "Pending"
    /\ accept_ch = "open"
    /\ result.kind = "Running"

\* a receiver of a rekey-completion result was dropped before the result
DroppedWaiter ==
    \E w \in DOMAIN waiters :
        waiters[w] = "dropped" /\ SeqContains(negotiate_st.done_txs, w)

\* C17: dropping the receiver of a rekey-completion result changes nothing
\* but the receiver; its sender stays in done_txs and the exchange stays in
\* progress; when the exchange reaches Done the cleanup runs as with a live
\* receiver: the state is reset to Idle, last_kex records the counters and
\* the time, the call returns Progress and the driver keeps running.
C17_DroppedWaiter ==
    /\ [][ \A w \in DOMAIN waiters :
             (waiters[w] = "waiting" /\ waiters'[w] = "dropped") =>
                /\ negotiate_st' = negotiate_st
                /\ last_kex' = last_kex
                /\ codec' = codec
                /\ sent_packets' = sent_packets
                /\ result' = result
                /\ SeqContains(negotiate_st'.done_txs, w)
         ]_vars
    /\ [][ (PumpNegotiate /\ negotiate_st.state = "Done" /\ DroppedWaiter) =>
             /\ negotiate_st' = DefaultNegotiateState
             /\ negotiate_st'.state = "Idle"
             /\ last_kex' = [ done |-> TRUE,
                              recvd_bytes |-> codec.recvd_bytes,
                              sent_bytes |-> codec.sent_bytes,
                              instant |-> now ]
             /\ ret' = "Progress"
             /\ result' = result
             /\ result'.kind = "Running"
             /\ \A w \in DOMAIN waiters :
                   waiters[w] = "dropped" => waiters'[w] = "dropped"
         ]_vars
    /\ [][ (DroppedWaiter /\ negotiate_st'.done_txs # negotiate_st.done_txs) =>
             \/ negotiate_st.state = "Done"
             \/ ret' = "Ok(true)"
             \/ Len(negotiate_st'.done_txs) > Len(negotiate_st.done_txs)
         ]_vars
    /\ [](negotiate_st.done_txs # << >> => negotiate_st.state # "Idle")

\* a rekey whose completion receiver had been dropped was completed
C17_Witness ==
    /\ \E w \in DOMAIN waiters : waiters[w] = "dropped"
    /\ negotiate_st = DefaultNegotiateState
    /\ last_kex.done
    /\ kex_count = 2
    /\ CountMsg(sent_packets, "NEWKEYS") = 2
    /\ ret = "Progress"
    /\ result.kind = "Running"

\* the edges of the negotiation state machine
StateEdges ==
    { << "Idle", "KexInit" >>, << "KexInit", "Kex" >>,
      << "Kex", "AcceptPubkey" >>, << "AcceptPubkey", "NewKeys" >>,
      << "NewKeys", "Done" >>, << "Done", "Idle" >>, << "KexInit", "Idle" >> }

\* C18: the negotiation state changes only along Idle->KexInit,
\* KexInit->Kex (both KEXINITs present, algorithms selected),
\* Kex->AcceptPubkey (kex output obtained, signature verified),
\* AcceptPubkey->NewKeys (application accepted), NewKeys->Done (NEWKEYS sent
\* and received), Done->Idle (last_kex set) and KexInit->Idle (rekey
\* rejected by the peer); every other change of state is unreachable.
C18_StateEdges ==
    /\ [](negotiate_st.state \in States)
    /\ [][ negotiate_st'.state # negotiate_st.state =>
            /\ << negotiate_st.state, negotiate_st'.state >> \in StateEdges
            /\ negotiate_st'.state = "Kex" =>
                 /\ IsSome(negotiate_st'.our_kex_init)
                 /\ IsSome(negotiate_st'.their_kex_init)
                 /\ IsSome(negotiate_st'.algos)
                 /\ IsSome(negotiate_st'.kex)
            /\ negotiate_st'.state = "AcceptPubkey" =>
                 /\ IsSome(negotiate_st'.kex_output)
                 /\ IsSome(negotiate_st'.signature_verified)
            /\ negotiate_st'.state = "NewKeys" =>
                 /\ IsSome(negotiate_st'.pubkey_accepted)
                 /\ accept_ch = "accepted"
            /\ negotiate_st'.state = "Done" =>
                 /\ negotiate_st'.new_keys_sent
                 /\ negotiate_st'.new_keys_recvd
            /\ (negotiate_st.state = "Done" /\ negotiate_st'.state = "Idle") =>
                 /\ last_kex'.done
                 /\ last_kex'.recvd_bytes = codec.recvd_bytes
                 /\ last_kex'.sent_bytes = codec.sent_bytes
                 /\ last_kex'.instant = now
            /\ (negotiate_st.state = "KexInit" /\ negotiate_st'.state = "Idle") =>
                 /\ last_kex.done
                 /\ last_kex' = last_kex
                 /\ IsSome(negotiate_st.our_kex_init)
                 /\ IsNone(negotiate_st.their_kex_init)
                 /\ ret' = "Ok(true)"
            /\ (negotiate_st.state = "Idle" /\ negotiate_st'.state = "KexInit") =>
                 \/ ret' = "Progress" /\ authenticated /\ RekeyDue
                 \/ ret' = "()"
                 \/ ret' = "Ok" /\ IsSome(negotiate_st'.their_kex_init)
      ]_vars

\* the second trip round the cycle, started by the peer, has reached Done
C18_Witness ==
    /\ negotiate_st.state = "Done"
    /\ negotiate_st.new_keys_sent
    /\ negotiate_st.new_keys_recvd
    /\ kex_count = 2
    /\ last_kex.done
    /\ ~authenticated
    /\ negotiate_st.done_txs = << >>

\* more than rekey_after_bytes moved in one direction, or more than
\* rekey_after_duration passed, since the last key exchange
ThresholdPassed ==
    \/ RecvdAfterKex > config.rekey_after_bytes
    \/ SentAfterKex > config.rekey_after_bytes
    \/ now - last_kex.instant > config.rekey_after_duration

\* C19: pump_negotiate in Idle starts a key exchange only when the client is
\* authenticated and the bytes received or sent since the last kex strictly
\* exceed rekey_after_bytes or the time since the last kex strictly exceeds
\* rekey_after_duration; when unauthenticated, or with both quantities at or
\* below their thresholds, it returns Pending, changes nothing and sends
\* nothing.
C19_RekeyTrigger ==
    [][ (PumpNegotiate /\ negotiate_st.state = "Idle") =>
          IF authenticated /\ ThresholdPassed
          THEN /\ negotiate_st'.state = "KexInit"
               /\ ret' = "Progress"
               /\ sent_packets' = sent_packets
          ELSE /\ ret' = "Pending"
               /\ negotiate_st' = negotiate_st
               /\ sent_packets' = sent_packets
               /\ codec' = codec
               /\ last_kex' = last_kex
               /\ result' = result
      ]_vars

\* an authenticated client exactly at both thresholds was pumped and did not
\* start a key exchange
C19_Witness ==
    /\ negotiate_st.state = "Idle"
    /\ authenticated
    /\ ret = "Pending"
    /\ Max(RecvdAfterKex, SentAfterKex) = config.rekey_after_bytes
    /\ now - last_kex.instant = config.rekey_after_duration
    /\ last_kex.done

\* the packets fed in this step, in order
NewPackets ==
    [ i \in 1..(Len(sent_packets') - Len(sent_packets)) |->
        sent_packets'[Len(sent_packets) + i] ]

\* C20: the outbound cipher is replaced only in a step that feeds our
\* NEWKEYS, right after it: NEWKEYS is the first packet of the step and goes
\* out under the old cipher, whatever follows (EXT_INFO) under the new one,
\* so in the whole output the cipher changes between a NEWKEYS and the next
\* packet and nowhere else. The inbound cipher is replaced only by the
\* handler of a received NEWKEYS. Each replacement happens exactly when the
\* exchange's new_keys_sent, resp. new_keys_recvd, flag is raised, once per
\* key exchange, and both have happened when the exchange is Done.
C20_CipherSwitch ==
    /\ [][ codec'.encrypt # codec.encrypt =>
             /\ Len(NewPackets) >= 1
             /\ NewPackets[1].msg = "NEWKEYS"
             /\ NewPackets[1].enc = codec.encrypt
             /\ \A i \in 2..Len(NewPackets) :
                   /\ NewPackets[i].enc = codec'.encrypt
                   /\ NewPackets[i].msg # "NEWKEYS"
             /\ negotiate_st.state = "NewKeys"
         ]_vars
    /\ [][ (codec'.encrypt # codec.encrypt) <=>
             (~negotiate_st.new_keys_sent /\ negotiate_st'.new_keys_sent)
         ]_vars
    /\ [][ Fed("NEWKEYS") => codec'.encrypt # codec.encrypt ]_vars
    /\ [](\A i \in DOMAIN sent_packets :
             LET next_enc == IF i < Len(sent_packets)
                             THEN sent_packets[i + 1].enc ELSE codec.encrypt
             IN  (sent_packets[i].msg = "NEWKEYS") <=>
                    (next_enc # sent_packets[i].enc))
    /\ [][ codec'.decrypt # codec.decrypt =>
             /\ ret' = "Ok"
             /\ negotiate_st.state \in { "Kex", "AcceptPubkey", "NewKeys" }
             /\ sent_packets' = sent_packets
         ]_vars
    /\ [][ (codec'.decrypt # codec.decrypt) <=>
             (~negotiate_st.new_keys_recvd /\ negotiate_st'.new_keys_recvd)
         ]_vars
    /\ [](negotiate_st.state = "Done" =>
             negotiate_st.new_keys_sent /\ negotiate_st.new_keys_recvd)

\* the first exchange is complete: NEWKEYS went out in the clear, EXT_INFO
\* after it under the first keys, and the inbound keys are in place
C20_Witness ==
    /\ last_kex.done
    /\ kex_count = 1
    /\ Len(sent_packets) = 4
    /\ sent_packets[3].msg = "NEWKEYS"
    /\ IsNone(sent_packets[3].enc)
    /\ sent_packets[4].msg = "EXT_INFO"
    /\ sent_packets[4].enc = codec.encrypt
    /\ IsSome(codec.encrypt)
    /\ IsSome(codec.decrypt)

----------------------------------------------------------------------------
(* C21: key derivation *)

\* RFC 4253 section 7.2: K1 = HASH(K || H || letter || session_id),
\* Kn = HASH(K || H || K1 || .. || K(n-1))
RECURSIVE RfcBlock(_, _, _), RfcBlocks(_, _, _)
RfcBlock(prefix, tail, n) ==
    IF n = 1 THEN ComputeHash(prefix \o tail)
    ELSE ComputeHash(prefix \o RfcBlocks(prefix, tail, n - 1))
RfcBlocks(prefix, tail, n) ==
    IF n = 0 THEN << >>
    ELSE RfcBlocks(prefix, tail, n - 1) \o RfcBlock(prefix, tail, n)

\* the first len bytes of K1 || K2 || .. for secret k, exchange hash h,
\* a letter and the session id sid
RfcKey(k, h, letter, sid, len) ==
    SubSeq(RfcBlocks(PutBiguint(k) \o HashBytes(h),
                     << letter >> \o HashBytes(sid), len), 1, len)

\* the keys RFC 4253 gives one direction: letters iv, key, mac
RfcCipher(ns, cipher, mac, letters) ==
    LET k == Unwrap(ns.kex_output).shared_secret
        h == Unwrap(ns.kex_output).exchange_hash
    IN  [ cipher |-> cipher,
          key |-> RfcKey(k, h, letters[2], 1, CipherKeyLen(cipher)),
          iv |-> RfcKey(k, h, letters[1], 1, CipherIvLen(cipher)),
          mac |-> IF IsAead(cipher) THEN None
                  ELSE Some([ algo |-> mac,
                              key |-> RfcKey(k, h, letters[3], 1,
                                             MacKeyLen(mac)) ]) ]

\* the lengths of the keys of an installed cipher are those of its algorithms
KeyLengths(c) ==
    /\ Len(c.key) = CipherKeyLen(c.cipher)
    /\ Len(c.iv) = CipherIvLen(c.cipher)
    /\ IsSome(c.mac) => Len(Unwrap(c.mac).key) = MacKeyLen(Unwrap(c.mac).algo)

\* C21: every key that is installed has exactly the length its algorithm
\* asks for and is the first bytes of K1 || K2 || .. of RFC 4253, hashed
\* from the secret and the hash of the current exchange and from the session
\* id, which is the hash of the first exchange (numbered 1) on rekeys too;
\* the outbound keys use the letters A (iv), C (key), E (mac), the inbound
\* keys the letters B (iv), D (key), F (mac).
C21_DeriveKey ==
    [][ /\ codec'.encrypt # codec.encrypt =>
            /\ codec'.encrypt =
                 Some(RfcCipher(negotiate_st,
                                Unwrap(negotiate_st.algos).cipher_cts,
                                Unwrap(negotiate_st.algos).mac_cts,
                                << 65, 67, 69 >>))
            /\ KeyLengths(Unwrap(codec'.encrypt))
        /\ codec'.decrypt # codec.decrypt =>
            /\ codec'.decrypt =
                 Some(RfcCipher(negotiate_st,
                                Unwrap(negotiate_st.algos).cipher_stc,
                                Unwrap(negotiate_st.algos).mac_stc,
                                << 66, 68, 70 >>))
            /\ KeyLengths(Unwrap(codec'.decrypt)) ]_vars

\* a rekey has installed both directions: the exchange hash is not the
\* session id, and the MAC keys are longer than two digests
C21_Witness ==
    /\ negotiate_st.new_keys_sent /\ negotiate_st.new_keys_recvd
    /\ IsSome(negotiate_st.kex_output)
    /\ Unwrap(negotiate_st.kex_output).exchange_hash = 2
    /\ session_id = Some(1)
    /\ codec.encrypt =
         Some(RfcCipher(negotiate_st, Unwrap(negotiate_st.algos).cipher_cts,
                        Unwrap(negotiate_st.algos).mac_cts, << 65, 67, 69 >>))
    /\ codec.decrypt =
         Some(RfcCipher(negotiate_st, Unwrap(negotiate_st.algos).cipher_stc,
                        Unwrap(negotiate_st.algos).mac_stc, << 66, 68, 70 >>))
    /\ Len(Unwrap(Unwrap(codec.encrypt).mac).key) > 2 * HashLen
    /\ Len(Unwrap(codec.decrypt).key) > HashLen

\* C22: a KEXINIT is stored only in Idle or KexInit with no KEXINIT of the
\* peer stored, and a NEWKEYS is taken only in Kex, AcceptPubkey or NewKeys
\* with no NEWKEYS taken in this exchange; every other KEXINIT or NEWKEYS is
\* answered with a protocol error and the negotiation state, the session id,
\* last_kex and the ciphers are left as they were.
C22_OutOfPhase ==
    [][ /\ \A k \in PeerKexInits :
              RecvKexInit(k, FALSE) =>
                IF /\ negotiate_st.state \in { "Idle", "KexInit" }
                   /\ IsNone(negotiate_st.their_kex_init)
                THEN /\ ret' = "Ok"
                     /\ negotiate_st'.their_kex_init = Some(k)
                     /\ negotiate_st'.state = "KexInit"
                     /\ result' = result
                ELSE /\ ret' = "Err"
                     /\ result'.kind = "Protocol"
                     /\ result'.reason =
                          "received SSH_MSG_KEXINIT during negotiation"
                     /\ negotiate_st' = negotiate_st
                     /\ session_id' = session_id
                     /\ last_kex' = last_kex
                     /\ codec' = codec
        /\ RecvNewKeys =>
              /\ ret' = "Ok" =>
                    /\ negotiate_st.state \in { "Kex", "AcceptPubkey", "NewKeys" }
                    /\ ~negotiate_st.new_keys_recvd
                    /\ negotiate_st'.new_keys_recvd
              /\ (\/ negotiate_st.state \in { "Idle", "KexInit", "Done" }
                  \/ negotiate_st.new_keys_recvd) =>
                    /\ ret' = "Err"
                    /\ result'.kind = "Protocol"
                    /\ result'.reason =
                         IF negotiate_st.state \in { "Idle", "KexInit", "Done" }
                         THEN "received unexpected SSH_MSG_NEWKEYS"
                         ELSE "received SSH_MSG_NEWKEYS twice"
                    /\ negotiate_st' = negotiate_st
                    /\ session_id' = session_id
                    /\ last_kex' = last_kex
                    /\ codec' = codec
      ]_vars

\* a second KEXINIT of the peer arrived while the application was deciding
\* on the host key
C22_Witness ==
    /\ ret = "Err"
    /\ result.kind = "Protocol"
    /\ result.reason = "received SSH_MSG_KEXINIT during negotiation"
    /\ negotiate_st.state = "AcceptPubkey"
    /\ IsSome(negotiate_st.their_kex_init)

\* how often the sender w is in the list
Occurrences(txs, w) == Cardinality({ i \in DOMAIN txs : txs[i] = w })

\* C23: while the driver runs, the sender of every waiting receiver is in
\* the waiter list exactly once and the list is empty in Idle; a receiver
\* is answered at most once: with Ok(()) in the step in which the exchange
\* its sender is attached to leaves Done, with Err(RekeyRejected) in the
\* step in which the peer's rejection resets the negotiation; every reset
\* to Idle empties the list and answers all its waiting receivers; and
\* start_kex during an exchange appends the sender and starts nothing.
C23_WaitersResolvedOnce ==
    /\ [](IsRunning =>
            /\ \A w \in DOMAIN waiters :
                  /\ Occurrences(negotiate_st.done_txs, w) <= 1
                  /\ waiters[w] = "waiting" =>
                        Occurrences(negotiate_st.done_txs, w) = 1
                  /\ Occurrences(negotiate_st.done_txs, w) = 1 =>
                        waiters[w] \in { "waiting", "dropped" }
            /\ negotiate_st.state = "Idle" => negotiate_st.done_txs = << >>)
    /\ [][ /\ \A w \in DOMAIN waiters :
                /\ waiters[w] \in { "ok", "rejected" } => waiters'[w] = waiters[w]
                /\ (waiters'[w] = "ok" /\ waiters[w] # "ok") =>
                      /\ waiters[w] = "waiting"
                      /\ SeqContains(negotiate_st.done_txs, w)
                      /\ negotiate_st.state = "Done"
                      /\ negotiate_st'.state = "Idle"
                      /\ last_kex'.done
                /\ (waiters'[w] = "rejected" /\ waiters[w] # "rejected") =>
                      /\ waiters[w] = "waiting"
                      /\ SeqContains(negotiate_st.done_txs, w)
                      /\ negotiate_st'.state = "Idle"
                      /\ ret' = "Ok(true)"
                      /\ IsNone(negotiate_st.their_kex_init)
                /\ (StartKex(w) /\ negotiate_st.state # "Idle") =>
                      /\ negotiate_st' =
                           [ negotiate_st EXCEPT !.done_txs = Append(@, w) ]
                      /\ kex_count' = kex_count
                      /\ sent_packets' = sent_packets
           /\ (negotiate_st.state # "Idle" /\ negotiate_st'.state = "Idle") =>
                /\ negotiate_st'.done_txs = << >>
                /\ \A w \in DOMAIN waiters :
                      (SeqContains(negotiate_st.done_txs, w)
                         /\ waiters[w] = "waiting") =>
                            waiters'[w] = IF negotiate_st.state = "Done"
                                          THEN "ok" ELSE "rejected"
         ]_vars

\* a sender attached to the running first exchange was answered with Ok(())
\* when that exchange completed
C23_Witness ==
    /\ \E w \in DOMAIN waiters : waiters[w] = "ok"
    /\ kex_count = 1
    /\ negotiate_st.state = "Idle"
    /\ last_kex.done

ExtInfoNames == { "ext-info-c", "ext-info-s" }

\* C24: EXT_INFO is fed at most once; it is fed only in a step of the first
\* key exchange (last_kex.done is false) whose peer KEXINIT lists ext-info-s,
\* and only as the packet right after our NEWKEYS, so never on a rekey.  The
\* kex name list of every KEXINIT we build ends with ext-info-c, and the
\* negotiated kex algorithm is never ext-info-c or ext-info-s.
C24_ExtInfo ==
    /\ [](/\ CountMsg(sent_packets, "EXT_INFO") <= 1
          /\ \A i \in DOMAIN sent_packets :
                sent_packets[i].msg = "EXT_INFO" =>
                    /\ i > 1
                    /\ sent_packets[i - 1].msg = "NEWKEYS"
          /\ IsSome(negotiate_st.our_kex_init) =>
                LET names == Unwrap(negotiate_st.our_kex_init).payload_kex_names
                IN  /\ names = Append(config.kex_algos, "ext-info-c")
                    /\ names[Len(names)] = "ext-info-c"
          /\ IsSome(negotiate_st.algos) =>
                /\ Unwrap(negotiate_st.algos).kex \notin ExtInfoNames
                /\ SeqContains(config.kex_algos, Unwrap(negotiate_st.algos).kex))
    /\ [][ CountMsg(sent_packets', "EXT_INFO") # CountMsg(sent_packets, "EXT_INFO") =>
              /\ ~last_kex.done
              /\ negotiate_st.state = "NewKeys"
              /\ ~negotiate_st.new_keys_sent /\ negotiate_st'.new_keys_sent
              /\ SeqContains(Unwrap(negotiate_st.their_kex_init).kex_algos,
                             "ext-info-s")
              /\ Len(sent_packets') = Len(sent_packets) + 2
              /\ sent_packets'[Len(sent_packets) + 1].msg = "NEWKEYS"
              /\ sent_packets'[Len(sent_packets) + 2].msg = "EXT_INFO"
         ]_vars

\* our NEWKEYS of a rekey went out to a peer that lists ext-info-s, and the
\* only EXT_INFO is the one of the first key exchange
C24_Witness ==
    /\ last_kex.done
    /\ negotiate_st.state = "NewKeys"
    /\ negotiate_st.new_keys_sent
    /\ SeqContains(Unwrap(negotiate_st.their_kex_init).kex_algos, "ext-info-s")
    /\ sent_packets[Len(sent_packets)].msg = "NEWKEYS"
    /\ CountMsg(sent_packets, "EXT_INFO") = 1
    /\ Unwrap(negotiate_st.our_kex_init).payload_kex_names
         = Append(config.kex_algos, "ext-info-c")

\* C25: every step that enters AcceptPubkey, on rekeys as on the first
\* exchange, creates one ServerPubkey event with an open accept channel, and
\* no other step creates one; the accept channel holds a reply only after
\* the application took this event from the queue; and the negotiation is in
\* NewKeys or Done, and NEWKEYS is fed, only with the event gone from the
\* negotiation state and the queue and the reply being `accepted`.
C25_PubkeyEventPerKex ==
    /\ [](/\ negotiate_st.state \in { "NewKeys", "Done" } =>
                /\ accept_ch = "accepted"
                /\ IsNone(negotiate_st.pubkey_event)
                /\ QueuedPubkeys(event_queue) = 0
                /\ ~app_accept
          /\ QueuedPubkeys(event_queue) <= 1
          /\ accept_ch \in { "accepted", "rejected" } =>
                /\ IsNone(negotiate_st.pubkey_event)
                /\ QueuedPubkeys(event_queue) = 0)
    /\ [][ /\ (negotiate_st.state # "AcceptPubkey"
                 /\ negotiate_st'.state = "AcceptPubkey") =>
                /\ negotiate_st.state = "Kex"
                /\ IsNone(negotiate_st.pubkey_event)
                /\ negotiate_st'.pubkey_event = Some("ServerPubkey")
                /\ QueuedPubkeys(event_queue') = 0
                /\ accept_ch' = "open"
                /\ ~app_accept'
           /\ (IsSome(negotiate_st'.pubkey_event)
                 /\ IsNone(negotiate_st.pubkey_event)) =>
                /\ negotiate_st.state = "Kex"
                /\ negotiate_st'.state = "AcceptPubkey"
           /\ (app_accept' /\ ~app_accept) =>
                /\ event_queue # << >>
                /\ Head(event_queue) = "ServerPubkey"
                /\ event_queue' = Tail(event_queue)
                /\ negotiate_st.state = "AcceptPubkey"
           /\ (accept_ch' = "accepted" /\ accept_ch # "accepted") =>
                /\ app_accept /\ ~app_accept'
                /\ negotiate_st.state = "AcceptPubkey"
           /\ (Fed("NEWKEYS") \/ (negotiate_st.state = "Done"
                                    /\ negotiate_st'.state = "Idle")) =>
                accept_ch = "accepted"
         ]_vars

\* a rekey completed: the application accepted the host key a second time
C25_Witness ==
    /\ kex_count = 2
    /\ negotiate_st.state = "Done"
    /\ last_kex.done
    /\ accept_ch = "accepted"
    /\ CountMsg(sent_packets, "NEWKEYS") = 2

\* C26: kex_count counts the key exchanges begun, however begun; the output
\* holds one KEXINIT for each of them, the current one included exactly when
\* our_kex_init is stored.  A pump in KexInit without our_kex_init feeds the
\* KEXINIT, whether or not the peer's KEXINIT has arrived, and records the
\* sequence number the packet got; no other step feeds a KEXINIT.
C26_OneKexInit ==
    /\ [](/\ CountMsg(sent_packets, "KEXINIT") =
               IF negotiate_st.state # "Idle" /\ IsNone(negotiate_st.our_kex_init)
               THEN kex_count - 1 ELSE kex_count
          /\ negotiate_st.state \notin { "Idle", "KexInit" } =>
                IsSome(negotiate_st.our_kex_init)
          /\ IsSome(negotiate_st.our_kex_init) =>
                \E i \in DOMAIN sent_packets :
                    /\ sent_packets[i].msg = "KEXINIT"
                    /\ sent_packets[i].seq =
                         Unwrap(negotiate_st.our_kex_init).packet_seq
                    /\ \A j \in DOMAIN sent_packets :
                          sent_packets[j].msg = "KEXINIT" => j <= i)
    /\ [][ /\ (/\ PumpNegotiate
               /\ negotiate_st.state = "KexInit"
               /\ IsNone(negotiate_st.our_kex_init)) =>
                  /\ Len(sent_packets') = Len(sent_packets) + 1
                  /\ sent_packets'[Len(sent_packets')].msg = "KEXINIT"
                  /\ sent_packets'[Len(sent_packets')].seq = codec.send_seq
                  /\ codec'.send_seq = codec.send_seq + 1
                  /\ IsSome(negotiate_st'.our_kex_init)
                  /\ Unwrap(negotiate_st'.our_kex_init).packet_seq = codec.send_seq
           /\ Fed("KEXINIT") =>
                  /\ negotiate_st.state = "KexInit"
                  /\ IsNone(negotiate_st.our_kex_init)
                  /\ CountMsg(sent_packets', "KEXINIT")
                       = CountMsg(sent_packets, "KEXINIT") + 1
           /\ (IsSome(negotiate_st.our_kex_init) /\ negotiate_st'.state # "Idle") =>
                  negotiate_st'.our_kex_init = negotiate_st.our_kex_init
         ]_vars

\* our KEXINIT of a rekey that the peer began has gone out, after the
\* peer's KEXINIT was stored
C26_Witness ==
    /\ last_kex.done
    /\ kex_count = 2
    /\ negotiate_st.state = "Kex"
    /\ IsSome(negotiate_st.their_kex_init)
    /\ IsSome(negotiate_st.our_kex_init)
    /\ CountMsg(sent_packets, "KEXINIT") = 2
    /\ sent_packets[Len(sent_packets)].msg = "KEXINIT"
    /\ sent_packets[Len(sent_packets)].seq
         = Unwrap(negotiate_st.our_kex_init).packet_seq
    /\ waiters = [ w \in DOMAIN waiters |-> "unused" ]
    /\ ~authenticated

\* C27: the fields of the negotiation state agree with the state tag.  In
\* Kex, AcceptPubkey and NewKeys both KEXINITs, the algorithms and the kex
\* object are present; in AcceptPubkey and NewKeys so are kex_output,
\* signature_verified, the accept receiver and the session id; in NewKeys
\* so is pubkey_accepted; new_keys_sent holds only in NewKeys and Done; in
\* Idle every field is absent and the waiter list is empty.  No call of
\* pump_negotiate fails an assert or an unwrap.
C27_StateTagConsistent ==
    /\ [](LET ns == negotiate_st
          IN  /\ ns.state \in { "Kex", "AcceptPubkey", "NewKeys" } =>
                    /\ IsSome(ns.our_kex_init)
                    /\ IsSome(ns.their_kex_init)
                    /\ IsSome(ns.algos)
                    /\ IsSome(ns.kex)
              /\ ns.state \in { "AcceptPubkey", "NewKeys" } =>
                    /\ IsSome(ns.kex_output)
                    /\ IsSome(ns.signature_verified)
                    /\ IsSome(ns.accepted_rx)
                    /\ IsSome(session_id)
              /\ ns.state = "NewKeys" => IsSome(ns.pubkey_accepted)
              /\ ns.new_keys_sent => ns.state \in { "NewKeys", "Done" }
              /\ ns.state = "Idle" => ns = DefaultNegotiateState
              /\ ns.state = "Idle" => ns.done_txs = << >>)
    /\ [][ PumpNegotiate => (ret' # "Panic" /\ result'.kind # "Panic") ]_vars

\* NEWKEYS of a rekey is about to be sent: every field the NewKeys arm
\* unwraps is present
C27_Witness ==
    /\ negotiate_st.state = "NewKeys"
    /\ ~negotiate_st.new_keys_sent
    /\ last_kex.done
    /\ IsSome(negotiate_st.algos) /\ IsSome(negotiate_st.kex)
    /\ IsSome(negotiate_st.kex_output)
    /\ IsSome(negotiate_st.signature_verified)
    /\ IsSome(negotiate_st.pubkey_accepted)
    /\ ret = "Progress"

\* C28: as stated, a received NEWKEYS never ends in a failed unwrap: in
\* every state in which recv_new_keys does not answer with a protocol error
\* (Kex, AcceptPubkey or NewKeys, and no NEWKEYS taken yet) the algorithms,
\* the kex object, kex_output and session_id are present.
C28_AsStated ==
    /\ ret # "Panic"
    /\ (/\ IsRunning
        /\ negotiate_st.state \in { "Kex", "AcceptPubkey", "NewKeys" }
        /\ ~negotiate_st.new_keys_recvd) =>
          /\ IsSome(negotiate_st.algos)
          /\ CanDeriveKey(negotiate_st, session_id)

\* a NEWKEYS arrived in Kex, where kex_output is still absent, and the
\* unwrap in derive_key failed
C28_Witness ==
    /\ ret = "Panic"
    /\ result.kind = "Panic"
    /\ negotiate_st.state = "Kex"
    /\ IsSome(negotiate_st.algos)
    /\ IsNone(negotiate_st.kex_output)
    /\ ~negotiate_st.new_keys_recvd

\* C29: the inbound cipher is replaced only by a received NEWKEYS, in
\* AcceptPubkey or NewKeys, when signature_verified is present and the
\* signature in the reply of the current exchange was valid; whenever a
\* NEWKEYS of the current exchange has been taken, that signature was
\* verified, whatever the order of the kex reply, the NEWKEYS and the
\* application's reply.
C29_DecryptAfterVerify ==
    /\ [](negotiate_st.new_keys_recvd =>
            /\ IsSome(negotiate_st.signature_verified)
            /\ IsSome(negotiate_st.kex_output)
            /\ Unwrap(Unwrap(negotiate_st.kex).reply).fault = "none"
            /\ IsSome(codec.decrypt))
    /\ [][ codec'.decrypt # codec.decrypt =>
              /\ RecvNewKeys
              /\ negotiate_st.state \in { "AcceptPubkey", "NewKeys" }
              /\ IsSome(negotiate_st.signature_verified)
              /\ Unwrap(Unwrap(negotiate_st.kex).reply).fault = "none"
              /\ ~negotiate_st.new_keys_recvd /\ negotiate_st'.new_keys_recvd
              /\ codec'.decrypt = Some(NewPacketDecrypt(negotiate_st, session_id))
         ]_vars

\* the NEWKEYS of the peer was taken after the signature was verified and
\* before the application has replied
C29_Witness ==
    /\ negotiate_st.state = "AcceptPubkey"
    /\ negotiate_st.new_keys_recvd
    /\ IsSome(negotiate_st.signature_verified)
    /\ accept_ch = "open"
    /\ IsSome(codec.decrypt)
    /\ ret = "Ok"

----------------------------------------------------------------------------
(* Specification of the key exchanges with a peer and an application that   *)
(* do their part, under fair scheduling                                     *)

\* the peer's KEXINIT, once per exchange, with algorithms that overlap ours
PeerSendsKexInit ==
    /\ negotiate_st.state \in { "Idle", "KexInit" }
    /\ IsNone(negotiate_st.their_kex_init)
    /\ \E k \in PeerKexInits :
          /\ NegotiateAlgos(OurKexInit(config, 0), k).ok
          /\ RecvKexInit(k, FALSE)

\* the peer's reply to the kex packet we sent, with a valid signature
PeerSendsKexReply ==
    /\ IsSome(negotiate_st.kex)
    /\ Unwrap(negotiate_st.kex).init_sent
    /\ IsNone(Unwrap(negotiate_st.kex).reply)
    /\ RecvKexPacket([ exchange_hash |-> kex_count, fault |-> "none" ])

\* the peer's one NEWKEYS of the exchange, which follows its reply; the
\* driver routes the packets it has received before it pumps
PeerSendsNewKeys ==
    /\ IsSome(negotiate_st.kex)
    /\ IsSome(Unwrap(negotiate_st.kex).reply)
    /\ ~negotiate_st.new_keys_recvd
    /\ RecvNewKeys

NextLive ==
    \/ PumpNegotiate
    \/ PeerSendsKexInit
    \/ PeerSendsKexReply
    \/ PeerSendsNewKeys
    \/ AppRecvEvent
    \/ AppAccept
    \/ \E w \in 1..MaxWaiters : StartKex(w)
    \/ AuthSuccess
    \/ TransferRecvd
    \/ TransferSent
    \/ Tick

\* the driver is polled as long as it can make progress, the peer sends
\* what the exchange needs and the application consumes and accepts
SpecLive ==
    /\ Init
    /\ [][NextLive]_vars
    /\ WF_vars(PumpNegotiate)
    /\ WF_vars(PeerSendsKexInit)
    /\ WF_vars(PeerSendsKexReply)
    /\ WF_vars(PeerSendsNewKeys)
    /\ WF_vars(AppRecvEvent)
    /\ WF_vars(AppAccept)

\* what a Pending pump_negotiate in a running exchange is waiting for
AwaitedInput ==
    \/ negotiate_st.state = "KexInit" /\ IsNone(negotiate_st.their_kex_init)
    \/ negotiate_st.state = "Kex" /\ IsNone(Unwrap(negotiate_st.kex).reply)
    \/ /\ negotiate_st.state = "AcceptPubkey"
       /\ \/ accept_ch = "open"
          \/ IsSome(negotiate_st.pubkey_event) /\ Len(event_queue) >= EventCapacity
    \/ negotiate_st.state = "NewKeys" /\ ~negotiate_st.new_keys_recvd

\* C30: as stated, with a peer and an application that do their part and a
\* fairly scheduled driver, every key exchange that enters KexInit returns
\* to Idle with last_kex.done set; the step back to Idle copies the codec's
\* byte counters into last_kex; and a pump_negotiate call in a running
\* exchange returns Pending only while one of the inputs is outstanding.
C30_AsStated ==
    /\ (negotiate_st.state = "KexInit") ~>
          (negotiate_st.state = "Idle" /\ last_kex.done)
    /\ [][ /\ (negotiate_st.state # "Idle" /\ negotiate_st'.state = "Idle") =>
                /\ last_kex'.done
                /\ last_kex'.recvd_bytes = codec.recvd_bytes
                /\ last_kex'.sent_bytes = codec.sent_bytes
                /\ codec' = codec
           /\ (PumpNegotiate /\ ret' = "Pending"
                 /\ negotiate_st.state # "Idle") => AwaitedInput
         ]_vars

\* the peer's NEWKEYS followed its reply before the driver pumped the Kex
\* arm; the unwrap in derive_key failed and the exchange never completes
C30_Witness ==
    /\ result.kind = "Panic"
    /\ negotiate_st.state = "Kex"
    /\ IsSome(Unwrap(negotiate_st.kex).reply)
    /\ Unwrap(Unwrap(negotiate_st.kex).reply).fault = "none"
    /\ IsNone(negotiate_st.kex_output)

====
